---------------------------- MODULE Spec2Model ----------------------------
(***************************************************************************)
(* Verification model of the ADAS perception pipeline:                     *)
(*   backend/adas/collision_warning.py  (CollisionWarning)                 *)
(*   backend/adas/distance_estimator.py (DistanceEstimator)                *)
(*                                                                         *)
(* Python floats are modelled as exact rationals <<n, d>> with d > 0;      *)
(* float('inf') is <<1, 0>>.  Timestamps are integer ticks of 0.5 s.       *)
(***************************************************************************)
EXTENDS Integers, Sequences, FiniteSets, TLC

VARIABLES
    ego_velocity,      \* CollisionWarning.ego_velocity (m/s)
    enable_audio,      \* CollisionWarning.enable_audio
    object_history,    \* CollisionWarning.object_history: id -> <<sample>>
    now,               \* what time.time() returns, in ticks
    calls,             \* Analyze steps made so far
    detected_objects,  \* argument of the last analyze call
    frame_width,       \* frame_width argument of the analyze calls
    timestamp,         \* argument of the last analyze call (0 = None)
    state,             \* WarningState returned by the last analyze call
    evaluated,         \* what _evaluate_threat returned per detection
    outcome,           \* "idle" | "returned" | "raised" (last analyze call)
    depth_scale,       \* DistanceEstimator.calibration.depth_scale
    call,              \* the last call made on a helper or on the estimator
    result,            \* what that call returned, and whether it raised
    history_size,      \* LaneKeeping.history_size
    enable_smoothing,  \* LaneKeeping.enable_smoothing
    left_history,      \* LaneKeeping.left_history
    right_history,     \* LaneKeeping.right_history
    frame,             \* lane pixels of the frame of the last detect call
    lane_state,        \* LaneState returned by the last detect call
    left_fits,         \* the left fits of the Detect steps, in arrival order
    right_fits,        \* the right fits of the Detect steps, in arrival order
    frames,            \* Detect steps made so far
    enable_depth_model,    \* DepthADASService.enable_depth_model
    depth_pipe,            \* DepthADASService._depth_pipe: "None" | "loaded"
    yolo_model,            \* DepthADASService._yolo_model: "None" | "loaded"
    service_ego_velocity,  \* DepthADASService.ego_velocity
    status,                \* DepthADASService.status
    current_video,         \* DepthADASService.current_video
    processed_frames,      \* DepthADASService.processed_frames
    total_frames,          \* DepthADASService.total_frames
    last_frame_times,      \* DepthADASService._last_frame_times (ms)
    adas_state,            \* what the last process_frame call returned
    streams,               \* per stream: where its process_video run stands
    processed,             \* process_frame calls made so far
    track_writers,         \* per track: the stream that wrote each sample
    left_writers,          \* the stream that wrote each left_history entry
    right_writers          \* the stream that wrote each right_history entry

cwVars == <<ego_velocity, enable_audio, object_history, now, calls,
            detected_objects, frame_width, timestamp, state, evaluated, outcome>>

deVars == <<depth_scale, call, result>>

lkVars == <<history_size, enable_smoothing, left_history, right_history,
            frame, lane_state, left_fits, right_fits, frames>>

svVars == <<enable_depth_model, depth_pipe, yolo_model, service_ego_velocity,
            status, current_video, processed_frames, total_frames,
            last_frame_times, adas_state, streams, processed, track_writers,
            left_writers, right_writers>>

vars == <<cwVars, deVars, lkVars, svVars>>

-----------------------------------------------------------------------------
(* Bounds of the model *)

MaxObjects == 2    \* longest detection list passed to analyze
MaxCalls == 2      \* analyze calls in one behaviour
MaxNow == 3        \* last tick the clock reaches
MaxFrames == 3     \* detect calls in one behaviour
MaxProcessed == 32 \* process_frame calls made directly in one behaviour

-----------------------------------------------------------------------------
(* Float arithmetic, as exact rationals *)

Abs(n) == IF n < 0 THEN -n ELSE n

RECURSIVE GCD(_, _)
GCD(a, b) == IF b = 0 THEN a ELSE GCD(b, a % b)

Inf == <<1, 0>>
NegInf == <<-1, 0>>

\* the marker a float division by zero leaves (Python raises there)
ZeroDivisionError == <<0, 0>>

IsErr(q) == q = ZeroDivisionError

R(n, d) ==
    IF d = 0 THEN (IF n > 0 THEN Inf ELSE IF n < 0 THEN NegInf
                   ELSE ZeroDivisionError)
    ELSE LET g == GCD(Abs(n), Abs(d))
             s == IF d < 0 THEN -1 ELSE 1
         IN  <<(s * n) \div g, (s * d) \div g>>

RLt(a, b) == a[1] * b[2] < b[1] * a[2]
RLe(a, b) == a[1] * b[2] <= b[1] * a[2]
REq(a, b) == a[1] * b[2] = b[1] * a[2]
RAdd(a, b) == R(a[1] * b[2] + b[1] * a[2], a[2] * b[2])
RSub(a, b) ==
    IF IsErr(a) \/ IsErr(b) THEN ZeroDivisionError
    ELSE R(a[1] * b[2] - b[1] * a[2], a[2] * b[2])
RMul(a, b) ==
    IF IsErr(a) \/ IsErr(b) THEN ZeroDivisionError
    ELSE R(a[1] * b[1], a[2] * b[2])
RDiv(a, b) ==
    IF IsErr(a) \/ IsErr(b) \/ b[1] = 0 THEN ZeroDivisionError
    ELSE R(a[1] * b[2], a[2] * b[1])
RAbs(a) == <<Abs(a[1]), a[2]>>
RMax(a, b) == IF IsErr(a) \/ IsErr(b) THEN ZeroDivisionError
              ELSE IF RLt(a, b) THEN b ELSE a
RMin(a, b) == IF IsErr(a) \/ IsErr(b) THEN ZeroDivisionError
              ELSE IF RLt(b, a) THEN b ELSE a

\* seconds of a tick count (one tick is 0.5 s)
Seconds(t) == R(t, 2)

\* format(x, ".1f"): the nearest tenth, as a count of tenths (inf stays inf)
Round1(q) ==
    IF q[2] = 0 THEN Inf
    ELSE LET s == 10 * q[1]
             f == s \div q[2]
             r == s % q[2]
         IN  IF 2 * r < q[2] THEN R(f, 10)
             ELSE IF 2 * r > q[2] THEN R(f + 1, 10)
             ELSE IF f % 2 = 0 THEN R(f, 10) ELSE R(f + 1, 10)

-----------------------------------------------------------------------------
(* collision_warning.py: WarningLevel, thresholds, constructor defaults *)

NONE == 0
INFO == 1
WARNING == 2
DANGER == 3
CRITICAL == 4

TTC_CRITICAL == <<1, 1>>
TTC_DANGER == <<2, 1>>
TTC_WARNING == <<7, 2>>
TTC_INFO == <<5, 1>>

DIST_CRITICAL == <<3, 1>>
DIST_DANGER == <<8, 1>>
DIST_WARNING == <<15, 1>>
DIST_SAFE == <<30, 1>>

LATERAL_THRESHOLD == <<2, 1>>

min_confidence == <<1, 2>>
history_window == <<1, 1>>

\* dict.get(key, default)
Get(obj, key, default) == IF key \in DOMAIN obj THEN obj[key] ELSE default

-----------------------------------------------------------------------------
(* hash(str(obj)): an id synthesized from the fields the detection holds.   *)
(* Equal detections get equal ids; the ids lie outside the tracker's range. *)

ClassCode(c) ==
    CASE c = "car" -> 1 [] c = "person" -> 2 [] c = "bicycle" -> 3
      [] c = "motorcycle" -> 4 [] OTHER -> 5

RatCode(q) == 1 + ((Abs(q[1]) + 31 * q[2]) % 999)

BBoxCode(b) == IF Len(b) = 0 THEN 1 ELSE 2 + ((b[1] + 3 * b[3]) % 298)

HashStr(obj) ==
    1000
    + (IF "object_class" \in DOMAIN obj THEN ClassCode(obj.object_class) ELSE 0)
    + 6 * (IF "distance" \in DOMAIN obj THEN RatCode(obj.distance) ELSE 0)
    + 6000 * (IF "confidence" \in DOMAIN obj THEN RatCode(obj.confidence) ELSE 0)
    + 6000000 * (IF "bbox" \in DOMAIN obj THEN BBoxCode(obj.bbox) ELSE 0)

-----------------------------------------------------------------------------
(* CollisionWarning private methods *)

\* _update_history: append, then keep the samples newer than the cutoff
UpdateHistory(hist, object_id, ts, distance, lateral) ==
    LET old == IF object_id \in DOMAIN hist THEN hist[object_id] ELSE <<>>
        appended == Append(old, [t |-> ts, d |-> distance, l |-> lateral])
        cutoff == RSub(Seconds(ts), history_window)
        kept == SelectSeq(appended, LAMBDA s : RLt(cutoff, Seconds(s.t)))
    IN  (object_id :> kept) @@ hist

EstimateVelocity_FromPrevious(hist, object_id) ==
    LET history == IF object_id \in DOMAIN hist THEN hist[object_id] ELSE <<>>
    IN  IF Len(history) < 2 THEN <<0, 1>>
        ELSE LET first == history[Len(history) - 1]
                 last == history[Len(history)]
                 dt == RSub(Seconds(last.t), Seconds(first.t))
             IN  IF RLt(dt, <<1, 100>>) THEN <<0, 1>>
                 ELSE RDiv(RSub(last.d, first.d), dt)

\* _estimate_velocity: secant slope between the first and the last sample
EstimateVelocity(hist, object_id) ==
    LET history == IF object_id \in DOMAIN hist THEN hist[object_id] ELSE <<>>
    IN  IF Len(history) < 2 THEN <<0, 1>>
        ELSE LET first == history[1]
                 last == history[Len(history)]
                 dt == RSub(Seconds(last.t), Seconds(first.t))
             IN  IF RLt(dt, <<1, 100>>) THEN <<0, 1>>
                 ELSE RDiv(RSub(last.d, first.d), dt)

CalculateTTC_SignFlipped(distance, relative_velocity) ==
    LET closing_velocity == RSub(relative_velocity, <<-ego_velocity, 1>>)
    IN  IF RLe(closing_velocity, <<0, 1>>) THEN Inf
        ELSE RMax(<<0, 1>>, RDiv(distance, closing_velocity))

CalculateTTC_ZeroUnguarded(distance, relative_velocity) ==
    LET closing_velocity == RSub(<<ego_velocity, 1>>, relative_velocity)
    IN  IF RLt(closing_velocity, <<0, 1>>) THEN Inf
        ELSE RMax(<<0, 1>>, RDiv(distance, closing_velocity))

\* _calculate_ttc
CalculateTTC(distance, relative_velocity) ==
    LET closing_velocity == RSub(<<ego_velocity, 1>>, relative_velocity)
    IN  IF RLe(closing_velocity, <<0, 1>>) THEN Inf
        ELSE RMax(<<0, 1>>, RDiv(distance, closing_velocity))

DetermineWarningLevel_NoLateralExit(distance, ttc, lateral_offset, object_class) ==
    IF RLt(ttc, TTC_CRITICAL) THEN CRITICAL
    ELSE IF RLt(ttc, TTC_DANGER) THEN DANGER
    ELSE IF RLt(ttc, TTC_WARNING) THEN WARNING
    ELSE IF RLt(ttc, TTC_INFO) THEN INFO
    ELSE IF RLt(distance, DIST_CRITICAL) THEN DANGER
    ELSE IF RLt(distance, DIST_DANGER) THEN WARNING
    ELSE IF RLt(distance, DIST_WARNING) THEN INFO
    ELSE NONE

DetermineWarningLevel_InfiniteOnly(distance, ttc, lateral_offset, object_class) ==
    IF RLt(LATERAL_THRESHOLD, RAbs(lateral_offset))
    THEN (IF RLt(distance, DIST_WARNING) THEN INFO ELSE NONE)
    ELSE IF RLt(ttc, TTC_CRITICAL) THEN CRITICAL
    ELSE IF RLt(ttc, TTC_DANGER) THEN DANGER
    ELSE IF RLt(ttc, TTC_WARNING) THEN WARNING
    ELSE IF RLt(ttc, TTC_INFO) THEN INFO
    ELSE IF ttc # Inf THEN NONE
    ELSE IF RLt(distance, DIST_CRITICAL) THEN DANGER
    ELSE IF RLt(distance, DIST_DANGER) THEN WARNING
    ELSE IF RLt(distance, DIST_WARNING) THEN INFO
    ELSE NONE

\* _determine_warning_level
DetermineWarningLevel(distance, ttc, lateral_offset, object_class) ==
    IF RLt(LATERAL_THRESHOLD, RAbs(lateral_offset))
    THEN (IF RLt(distance, DIST_WARNING) THEN INFO ELSE NONE)
    ELSE IF RLt(ttc, TTC_CRITICAL) THEN CRITICAL
    ELSE IF RLt(ttc, TTC_DANGER) THEN DANGER
    ELSE IF RLt(ttc, TTC_WARNING) THEN WARNING
    ELSE IF RLt(ttc, TTC_INFO) THEN INFO
    ELSE IF RLt(distance, DIST_CRITICAL) THEN DANGER
    ELSE IF RLt(distance, DIST_DANGER) THEN WARNING
    ELSE IF RLt(distance, DIST_WARNING) THEN INFO
    ELSE NONE

\* _determine_warning_type
DetermineWarningType(object_class, lateral_offset) ==
    IF object_class = "person" THEN "pedestrian"
    ELSE IF object_class \in {"bicycle", "motorcycle"} THEN "cyclist"
    ELSE IF RLt(<<3, 2>>, RAbs(lateral_offset)) THEN "side_collision"
    ELSE "forward_collision"

\* str.title() on the class labels in use
Title(c) ==
    CASE c = "car" -> "Car" [] c = "person" -> "Person"
      [] c = "bicycle" -> "Bicycle" [] c = "motorcycle" -> "Motorcycle"
      [] OTHER -> "Unknown"

\* _generate_warning_message: the parts the f-string is built from
GenerateWarningMessage(threat) ==
    [base |-> threat.warning_level,
     target |-> IF threat.warning_type = "pedestrian" THEN "Pedestrian"
                ELSE IF threat.warning_type = "cyclist" THEN "Cyclist"
                ELSE Title(threat.object_class),
     distance |-> Round1(threat.distance),
     ttc |-> Round1(threat.ttc)]

\* line 160: the detection is skipped
BelowMinConfidence_Quarter(obj) ==
    RLt(Get(obj, "confidence", <<1, 1>>), <<1, 4>>)

BelowMinConfidence(obj) ==
    RLt(Get(obj, "confidence", <<1, 1>>), min_confidence)

OutOfRange_NegativeOnly(distance) ==
    RLt(distance, <<0, 1>>) \/ RLt(DIST_SAFE, distance)

\* line 201: _evaluate_threat returns None
OutOfRange(distance) ==
    RLe(distance, <<0, 1>>) \/ RLt(DIST_SAFE, distance)

\* lateral offset of a bbox, lines 205-210
LateralOffset(bbox, fw) ==
    IF Len(bbox) > 0
    THEN LET center_x == R(bbox[1] + bbox[3], 2)
             half == R(fw, 2)
         IN  RMul(RDiv(RSub(center_x, half), half), <<3, 1>>)
    ELSE <<0, 1>>

\* _evaluate_threat: the new history and the threat (<<>> for None)
EvaluateThreat(hist, obj, fw, ts) ==
    LET object_id == Get(obj, "object_id", HashStr(obj))
        object_class == Get(obj, "object_class", "unknown")
        distance == Get(obj, "distance", Inf)
        confidence == Get(obj, "confidence", <<1, 1>>)
        bbox == Get(obj, "bbox", <<0, 0, 0, 0>>)
    IN  IF OutOfRange(distance)
        THEN [hist |-> hist, ret |-> <<>>, raised |-> FALSE]
        ELSE
          LET lateral_offset == LateralOffset(bbox, fw)
              h2 == UpdateHistory(hist, object_id, ts, distance, lateral_offset)
              relative_velocity == EstimateVelocity(h2, object_id)
              ttc == CalculateTTC(distance, relative_velocity)
          IN  [hist |-> IF IsErr(lateral_offset) THEN hist ELSE h2,
               raised |-> IsErr(lateral_offset) \/ IsErr(relative_velocity)
                            \/ IsErr(ttc),
               ret |-> << [object_id |-> object_id,
                           object_class |-> object_class,
                           distance |-> distance,
                           relative_velocity |-> relative_velocity,
                           ttc |-> ttc,
                           lateral_offset |-> lateral_offset,
                           warning_level |-> DetermineWarningLevel(
                               distance, ttc, lateral_offset, object_class),
                           warning_type |-> DetermineWarningType(
                               object_class, lateral_offset),
                           confidence |-> confidence] >>]

-----------------------------------------------------------------------------
(* CollisionWarning.analyze *)

\* the sort key of line 168, compared as Python compares tuples
KeyLt(a, b) ==
    \/ RLt(a.ttc, b.ttc)
    \/ REq(a.ttc, b.ttc) /\ RLt(a.distance, b.distance)

\* list.sort(key=...): stable, ascending
RECURSIVE SortThreats(_)
SortThreats(threats) ==
    IF Len(threats) <= 1 THEN threats
    ELSE LET n == Len(threats)
             sorted == SortThreats(SubSeq(threats, 1, n - 1))
             t == threats[n]
             k == Cardinality({i \in 1..(n - 1) : ~KeyLt(t, sorted[i])})
         IN  SubSeq(sorted, 1, k) \o <<t>> \o SubSeq(sorted, k + 1, n - 1)

\* max(t.warning_level for t in threats): WarningLevel is a plain Enum, its
\* members define no ordering, so the first comparison raises TypeError
MaxWarningLevel(threats) ==
    [raised |-> Len(threats) > 1,
     value |-> IF Len(threats) = 1 THEN threats[1].warning_level ELSE NONE]

AudioAlert_FromDanger(highest_level) == enable_audio /\ highest_level >= DANGER

\* lines 178-181
AudioAlert(highest_level) == enable_audio /\ highest_level >= WARNING

\* lines 182-184
BrakeAssist(highest_level) == highest_level = CRITICAL

\* WarningState(timestamp=...) with its field defaults
NewWarningState(ts) ==
    [timestamp |-> ts,
     active_threats |-> <<>>,
     highest_level |-> NONE,
     primary_threat |-> <<>>,
     warning_message |-> <<>>,
     audio_alert |-> FALSE,
     brake_assist_triggered |-> FALSE]

\* lines 162-165: the loop's state after _evaluate_threat returned e
Accumulate(acc, e) ==
    [hist |-> e.hist,
     raised |-> e.raised,
     threats |-> IF ~e.raised /\ Len(e.ret) = 1
                      /\ e.ret[1].warning_level # NONE
                 THEN Append(acc.threats, e.ret[1])
                 ELSE acc.threats,
     evaluated |-> Append(acc.evaluated, [called |-> TRUE, ret |-> e.ret])]

\* the for loop of lines 159-165
RECURSIVE AnalyzeLoop(_, _, _, _, _)
AnalyzeLoop(objs, i, fw, ts, acc) ==
    IF i > Len(objs) \/ acc.raised THEN acc
    ELSE IF BelowMinConfidence(objs[i])
    THEN AnalyzeLoop(objs, i + 1, fw, ts,
             [acc EXCEPT !.evaluated =
                 Append(@, [called |-> FALSE, ret |-> <<>>])])
    ELSE AnalyzeLoop(objs, i + 1, fw, ts,
             Accumulate(acc, EvaluateThreat(acc.hist, objs[i], fw, ts)))

\* lines 170-186: the WarningState built from the sorted threats
BuildWarningState(loop, threats, highest, ts) ==
    IF loop.raised \/ (Len(threats) > 0 /\ highest.raised)
    THEN [object_history |-> loop.hist, outcome |-> "raised",
          state |-> NewWarningState(ts), evaluated |-> loop.evaluated]
    ELSE [object_history |-> loop.hist, outcome |-> "returned",
          evaluated |-> loop.evaluated,
          state |->
            IF Len(threats) = 0
            THEN [NewWarningState(ts) EXCEPT !.active_threats = threats]
            ELSE [timestamp |-> ts,
                  active_threats |-> threats,
                  primary_threat |-> <<threats[1]>>,
                  highest_level |-> highest.value,
                  warning_message |-> <<GenerateWarningMessage(threats[1])>>,
                  audio_alert |-> AudioAlert(highest.value),
                  brake_assist_triggered |-> BrakeAssist(highest.value)]]

\* line 176 on the sorted threats
Aggregate(loop, threats, ts) ==
    BuildWarningState(loop, threats, MaxWarningLevel(threats), ts)

\* line 168 on what the loop collected
SortAndAggregate(loop, ts) == Aggregate(loop, SortThreats(loop.threats), ts)

\* analyze(detected_objects, frame_width, timestamp) run on history hist with
\* the clock reading clock: the history it leaves, whether it returned, and
\* the WarningState it returned
AnalyzeCall(hist, objs, fw, ts_arg, clock) ==
    LET ts == IF ts_arg # 0 THEN ts_arg ELSE clock
    IN  SortAndAggregate(
            AnalyzeLoop(objs, 1, fw, ts,
                [hist |-> hist, raised |-> FALSE, threats |-> <<>>,
                 evaluated |-> <<>>]),
            ts)

-----------------------------------------------------------------------------
(* Inputs *)

BBoxCentre == <<300, 200, 340, 350>>
BBoxSide == <<560, 200, 640, 350>>

Car(id, d) ==
    [object_id |-> id, object_class |-> "car", distance |-> d,
     bbox |-> BBoxCentre, confidence |-> <<9, 10>>]

Detections ==
    { Car(1, <<21, 2>>),
      Car(1, <<8, 1>>),
      [object_id |-> 2, object_class |-> "person", distance |-> <<5, 1>>,
       bbox |-> BBoxSide, confidence |-> <<9, 10>>],
      [object_id |-> 1, object_class |-> "car", distance |-> <<2, 1>>,
       bbox |-> BBoxCentre, confidence |-> <<3, 10>>],
      [object_class |-> "car", distance |-> <<20, 1>>,
       bbox |-> BBoxSide, confidence |-> <<9, 10>>],
      [object_id |-> 2, object_class |-> "car", distance |-> <<0, 1>>,
       bbox |-> BBoxCentre, confidence |-> <<9, 10>>],
      [distance |-> <<12, 1>>],
      [object_id |-> 1, bbox |-> <<>>] }

DetectionLists ==
    UNION {[1..n -> Detections] : n \in 0..MaxObjects}

\* the width of the stream's frames
FrameWidths == {640, 1280}

\* 0 stands for timestamp=None (and for 0.0, which `or` treats alike)
Stamps == {0}

EgoVelocities == {0, 15}

-----------------------------------------------------------------------------
(* lane_keeping.py: LaneKeeping.  A polynomial x = a*y^2 + b*y + c is the   *)
(* coefficient vector <<a, b, c>>; Python's None is the empty tuple.  The   *)
(* lane pixels of one side are their count n and the least-squares curve    *)
(* poly through them.                                                      *)

DRIFT_THRESHOLD == <<3, 10>>
DEPARTURE_THRESHOLD == <<7, 10>>
DEFAULT_LANE_WIDTH == <<7, 2>>
ppm_bottom == <<100, 1>>
warped_size == <<400, 600>>

None == <<>>

CENTERED == "centered"
DRIFTING_LEFT == "drifting_left"
DRIFTING_RIGHT == "drifting_right"
DEPARTED_LEFT == "departed_left"
DEPARTED_RIGHT == "departed_right"
NO_LANE == "no_lane"

\* LaneState() with its field defaults
NewLaneState ==
    [left_poly |-> None,
     right_poly |-> None,
     center_poly |-> None,
     road_width |-> <<7, 2>>,
     center_offset |-> <<0, 1>>,
     curvature_radius |-> Inf,
     heading_angle |-> <<0, 1>>,
     departure_status |-> NO_LANE,
     confidence |-> <<0, 1>>,
     suggested_steering |-> <<0, 1>>]

\* _fit_polynomial
FitPolynomial(pixels) == IF pixels.n < 10 THEN None ELSE pixels.poly

\* lines 125-126: the per-frame fit of one side
FrameFit(pixels) == IF pixels.n > 100 THEN FitPolynomial(pixels) ELSE None

PolyAdd(p, q) == [i \in 1..3 |-> RAdd(p[i], q[i])]

RECURSIVE PolySum(_)
PolySum(polys) ==
    IF Len(polys) = 1 THEN polys[1]
    ELSE PolyAdd(polys[1], PolySum(Tail(polys)))

\* np.mean(history, axis=0)
PolyMean(polys) ==
    LET total == PolySum(polys)
    IN  [i \in 1..3 |-> RDiv(total[i], <<Len(polys), 1>>)]

\* np.polyval(poly, y)
PolyVal(poly, y) ==
    RAdd(RAdd(RMul(poly[1], <<y * y, 1>>), RMul(poly[2], <<y, 1>>)), poly[3])

\* history after the append and the pop(0) of lines 289-293 (poly is a fit)
Retained(appended, size) ==
    [history |-> IF Len(appended) > size /\ Len(appended) > 0
                 THEN Tail(appended) ELSE appended,
     raised |-> Len(appended) > size /\ Len(appended) = 0]

SmoothLane_KeepAll(poly, history, size) ==
    LET appended == IF poly # None THEN Append(history, poly) ELSE history
    IN  [history |-> appended, raised |-> FALSE,
         poly |-> IF Len(appended) = 0 THEN None ELSE PolyMean(appended)]

\* _smooth_lane: the history it leaves and the polynomial it returns
SmoothLane(poly, history, size) ==
    LET r == Retained(IF poly # None THEN Append(history, poly) ELSE history,
                      size)
    IN  [history |-> r.history, raised |-> r.raised,
         poly |-> IF Len(r.history) = 0 THEN None ELSE PolyMean(r.history)]

\* the integer square root of x, searched between lo and hi (lo^2 <= x < hi^2)
RECURSIVE ISqrtIn(_, _, _)
ISqrtIn(x, lo, hi) ==
    IF hi - lo <= 1 THEN lo
    ELSE LET mid == (lo + hi) \div 2
         IN  IF mid * mid <= x THEN ISqrtIn(x, mid, hi)
             ELSE ISqrtIn(x, lo, mid)

\* q ** 0.5 to two decimals (q >= 0)
Sqrt(q) ==
    LET x == (q[1] * 10000) \div q[2]
    IN  R(ISqrtIn(x, 0, x + 1), 100)

\* q ** 1.5
Pow15(q) == RMul(q, Sqrt(q))

\* _compute_curvature
ComputeCurvature(poly, y_eval) ==
    IF poly = None THEN Inf
    ELSE LET d1 == RAdd(RMul(RMul(<<2, 1>>, poly[1]), <<y_eval, 1>>), poly[2])
             d2 == RMul(<<2, 1>>, poly[1])
         IN  IF RLt(RAbs(d2), <<1, 1000000>>) THEN Inf
             ELSE RMin(RDiv(RDiv(Pow15(RAdd(<<1, 1>>, RMul(d1, d1))),
                                 RAbs(d2)),
                            ppm_bottom),
                       <<10000, 1>>)

\* np.arctan(slope) * 180 / np.pi, to the nearest multiple of 15 degrees
ArcTanDeg(slope) ==
    LET t == RAbs(slope)
        sign == IF slope[1] < 0 THEN -1 ELSE 1
        deg == IF RLt(t, <<13165, 100000>>) THEN 0
               ELSE IF RLt(t, <<41421, 100000>>) THEN 15
               ELSE IF RLt(t, <<76733, 100000>>) THEN 30
               ELSE IF RLt(t, <<130323, 100000>>) THEN 45
               ELSE IF RLt(t, <<241421, 100000>>) THEN 60
               ELSE IF RLt(t, <<759575, 100000>>) THEN 75
               ELSE 90
    IN  <<sign * deg, 1>>

\* _compute_heading
ComputeHeading(poly, y_eval) ==
    IF poly = None THEN <<0, 1>>
    ELSE ArcTanDeg(RAdd(RMul(RMul(<<2, 1>>, poly[1]), <<y_eval, 1>>), poly[2]))

ComputeSteering_Unclamped(lane) ==
    RAdd(RMul(<<2, 1>>, lane.center_offset),
         RMul(<<1, 2>>, lane.heading_angle))

\* _compute_steering: np.clip(steering, -45, 45)
ComputeSteering(lane) ==
    RMax(<<-45, 1>>,
         RMin(RAdd(RMul(<<2, 1>>, lane.center_offset),
                   RMul(<<1, 2>>, lane.heading_angle)),
              <<45, 1>>))

DepartureStatus_DriftFromDeparture(center_offset) ==
    IF RLt(DEPARTURE_THRESHOLD, RAbs(center_offset))
    THEN (IF center_offset[1] > 0 THEN DEPARTED_RIGHT ELSE DEPARTED_LEFT)
    ELSE IF RLe(DEPARTURE_THRESHOLD, RAbs(center_offset))
    THEN (IF center_offset[1] > 0 THEN DRIFTING_RIGHT ELSE DRIFTING_LEFT)
    ELSE CENTERED

\* lines 366-378
DepartureStatus(center_offset) ==
    IF RLt(DEPARTURE_THRESHOLD, RAbs(center_offset))
    THEN (IF center_offset[1] > 0 THEN DEPARTED_RIGHT ELSE DEPARTED_LEFT)
    ELSE IF RLt(DRIFT_THRESHOLD, RAbs(center_offset))
    THEN (IF center_offset[1] > 0 THEN DRIFTING_RIGHT ELSE DRIFTING_LEFT)
    ELSE CENTERED

\* lines 335-352: both sides visible, at x = left_x and x = right_x
MeasureBoth(lane, left_x, right_x, center_poly, y_eval) ==
    LET lane_center == RDiv(RAdd(left_x, right_x), <<2, 1>>)
        img_center == R(warped_size[1], 2)
        lane_width_px == RSub(right_x, left_x)
        meters_per_pixel == RDiv(DEFAULT_LANE_WIDTH, lane_width_px)
        valid == RLt(<<50, 1>>, lane_width_px)
    IN  [lane EXCEPT
           !.center_offset =
               IF valid THEN RMul(RSub(img_center, lane_center), meters_per_pixel)
               ELSE @,
           !.road_width =
               IF valid THEN RMul(lane_width_px, meters_per_pixel) ELSE @,
           !.center_poly = center_poly,
           !.curvature_radius = ComputeCurvature(center_poly, y_eval),
           !.heading_angle = ComputeHeading(center_poly, y_eval)]

\* lines 356-358 and 362-364: one side visible at x, the centre half a lane
\* to its right (side = 1) or to its left (side = -1)
MeasureOne(lane, x, side) ==
    LET half_lane == RDiv(RMul(ppm_bottom, DEFAULT_LANE_WIDTH), <<2, 1>>)
        estimated_center == RAdd(x, RMul(<<side, 1>>, half_lane))
    IN  [lane EXCEPT !.center_offset =
            RDiv(RSub(R(warped_size[1], 2), estimated_center), ppm_bottom)]

\* lines 366-381 on the measured state
Classify(lane) ==
    [lane EXCEPT
       !.departure_status = DepartureStatus(lane.center_offset),
       !.suggested_steering = ComputeSteering(lane)]

\* lines 309-322: polynomials and confidence
WithConfidence(left_poly, right_poly) ==
    [NewLaneState EXCEPT
       !.left_poly = left_poly,
       !.right_poly = right_poly,
       !.confidence = RAdd(IF left_poly # None THEN <<1, 2>> ELSE <<0, 1>>,
                           IF right_poly # None THEN <<1, 2>> ELSE <<0, 1>>)]

\* _compute_metrics
ComputeMetrics(left_poly, right_poly) ==
    LET y_eval == warped_size[2] - 1
    IN  IF left_poly = None /\ right_poly = None
        THEN WithConfidence(left_poly, right_poly)
        ELSE IF left_poly # None /\ right_poly # None
        THEN Classify(MeasureBoth(WithConfidence(left_poly, right_poly),
                 PolyVal(left_poly, y_eval), PolyVal(right_poly, y_eval),
                 PolyMean(<<left_poly, right_poly>>), y_eval))
        ELSE IF left_poly # None
        THEN Classify(MeasureOne(WithConfidence(left_poly, right_poly),
                 PolyVal(left_poly, y_eval), 1))
        ELSE Classify(MeasureOne(WithConfidence(left_poly, right_poly),
                 PolyVal(right_poly, y_eval), -1))

\* lines 129-134 with smoothing: l and r are what _smooth_lane returned
Smoothed(l, r, left_was) ==
    IF l.raised
    THEN [left_history |-> left_was, right_history |-> r.history,
          raised |-> TRUE, state |-> NewLaneState]
    ELSE IF r.raised
    THEN [left_history |-> l.history, right_history |-> r.history,
          raised |-> TRUE, state |-> NewLaneState]
    ELSE [left_history |-> l.history, right_history |-> r.history,
          raised |-> FALSE, state |-> ComputeMetrics(l.poly, r.poly)]

\* detect on the lane pixels fr of a frame: the histories it leaves, whether
\* it raised, and the LaneState it returned
DetectCall(smoothing, size, lh, rh, fr) ==
    IF smoothing
    THEN Smoothed(SmoothLane(FrameFit(fr.left), lh, size),
                  SmoothLane(FrameFit(fr.right), rh, size), lh)
    ELSE [left_history |-> lh, right_history |-> rh, raised |-> FALSE,
          state |-> ComputeMetrics(FrameFit(fr.left), FrameFit(fr.right))]

-----------------------------------------------------------------------------
(* State machine of one CollisionWarning instance *)

InitCW ==
    /\ ego_velocity \in EgoVelocities
    /\ enable_audio \in BOOLEAN
    /\ object_history = <<>>
    /\ now = 1
    /\ calls = 0
    /\ detected_objects = <<>>
    /\ frame_width \in FrameWidths
    /\ timestamp = 0
    /\ state = NewWarningState(0)
    /\ evaluated = <<>>
    /\ outcome = "idle"

\* DistanceEstimator() with the default CameraCalibration, not yet called
InitIdleDE ==
    /\ depth_scale = <<10, 1>>
    /\ call = [op |-> "none"]
    /\ result = [raised |-> FALSE, value |-> <<0, 1>>]

\* no lane pixels at all
NoFrame == [left |-> [n |-> 0, poly |-> None],
            right |-> [n |-> 0, poly |-> None]]

\* LaneKeeping() with its defaults, not yet called
InitIdleLK ==
    /\ history_size = 7
    /\ enable_smoothing = TRUE
    /\ left_history = <<>>
    /\ right_history = <<>>
    /\ frame = NoFrame
    /\ lane_state = [raised |-> FALSE, state |-> NewLaneState]
    /\ left_fits = <<>>
    /\ right_fits = <<>>
    /\ frames = 0

IDLE == "idle"
PROCESSING == "processing"
COMPLETED == "completed"
ERROR == "error"

\* the streams the service may be asked to process; 0 is a direct caller
Streams == {1, 2}

\* no process_frame call has returned yet
NoADASState ==
    [frame_id |-> 0, warning_level |-> NONE, brake_assist |-> FALSE,
     lane_status |-> NO_LANE, lane_confidence |-> <<0, 1>>,
     fps |-> <<0, 1>>, processing_time_ms |-> 0]

NoRun == [pc |-> "idle", video |-> "None", skip_frames |-> 0, frame_count |-> 0]

\* adas_service = DepthADASService(enable_depth_model=False), not yet used
InitIdleSvc ==
    /\ enable_depth_model = FALSE
    /\ depth_pipe = "None"
    /\ yolo_model = "None"
    /\ service_ego_velocity = 15
    /\ status = IDLE
    /\ current_video = "None"
    /\ processed_frames = 0
    /\ total_frames = 0
    /\ last_frame_times = <<>>
    /\ adas_state = NoADASState
    /\ streams = [s \in Streams |-> NoRun]
    /\ processed = 0
    /\ track_writers = <<>>
    /\ left_writers = <<>>
    /\ right_writers = <<>>

Init == InitCW /\ InitIdleDE /\ InitIdleLK /\ InitIdleSvc

\* time passes between calls
AdvanceClock ==
    /\ now < MaxNow
    /\ now' = now + 1
    /\ UNCHANGED <<ego_velocity, enable_audio, object_history, calls,
                   detected_objects, frame_width, timestamp, state,
                   evaluated, outcome, deVars, lkVars, svVars>>

\* what the call leaves behind: r is what AnalyzeCall computed
AnalyzeEnds(r) ==
    /\ object_history' = r.object_history
    /\ outcome' = r.outcome
    /\ state' = r.state
    /\ evaluated' = r.evaluated

Analyze(objs, ts_arg) ==
    /\ calls < MaxCalls
    /\ AnalyzeEnds(AnalyzeCall(object_history, objs, frame_width, ts_arg, now))
    /\ calls' = calls + 1
    /\ detected_objects' = objs
    /\ timestamp' = ts_arg
    /\ UNCHANGED <<ego_velocity, enable_audio, now, frame_width, deVars,
                   lkVars, svVars>>

Next ==
    \/ AdvanceClock
    \/ \E objs \in DetectionLists, ts_arg \in Stamps : Analyze(objs, ts_arg)

Spec == Init /\ [][Next]_vars

-----------------------------------------------------------------------------
(* analyze called with the timestamps of the caller's frames: SpecStamped *)

\* timestamp arguments in ticks; 0 is 0.0, the time of a video's first frame
FrameStamps == {0, 1, 2, 3}

StampedLists == UNION {[1..n -> {Car(1, <<21, 2>>), Car(1, <<8, 1>>)}] : n \in 0..1}

NextStamped ==
    \/ AdvanceClock
    \/ \E objs \in StampedLists, ts_arg \in FrameStamps : Analyze(objs, ts_arg)

SpecStamped == Init /\ [][NextStamped]_vars

-----------------------------------------------------------------------------
(* _calculate_ttc and update_ego_velocity on their own: SpecTTC *)

TTCDistances == {<<1, 2>>, <<2, 1>>, <<8, 1>>, <<21, 2>>, <<30, 1>>}

TTCVelocities == {<<-20, 1>>, <<-5, 1>>, <<0, 1>>, <<5, 1>>, <<10, 1>>,
                  <<15, 1>>, <<35, 2>>}

EgoInputs == {-5, 0, 10, 15}

InitTTC ==
    /\ Init
    /\ enable_audio = TRUE
    /\ frame_width = 640

EgoVelocityOf_Unclamped(velocity) == velocity

\* line 131: max(0, velocity)
EgoVelocityOf(velocity) == IF velocity > 0 THEN velocity ELSE 0

\* update_ego_velocity
UpdateEgoVelocity(velocity) ==
    /\ ego_velocity' = EgoVelocityOf(velocity)
    /\ UNCHANGED <<enable_audio, object_history, now, calls, detected_objects,
                   frame_width, timestamp, state, evaluated, outcome,
                   deVars, lkVars, svVars>>

CallCalculateTTC(distance, relative_velocity) ==
    /\ call' = [op |-> "_calculate_ttc", ego_velocity |-> ego_velocity,
                distance |-> distance, relative_velocity |-> relative_velocity]
    /\ result' = [raised |-> IsErr(CalculateTTC(distance, relative_velocity)),
                  value |-> CalculateTTC(distance, relative_velocity)]
    /\ UNCHANGED <<cwVars, depth_scale, lkVars, svVars>>

\* what _calculate_ttc may have returned
TTCValues == {<<0, 1>>, <<1, 2>>, <<1, 1>>, <<3, 2>>, <<2, 1>>, <<3, 1>>,
              <<7, 2>>, <<4, 1>>, <<5, 1>>, <<6, 1>>, Inf}

\* distances within analyze's range (0, 30]
LevelDistances == {<<2, 1>>, <<3, 1>>, <<5, 1>>, <<8, 1>>, <<10, 1>>,
                   <<15, 1>>, <<20, 1>>}

LateralOffsets == {<<-3, 1>>, <<-2, 1>>, <<0, 1>>, <<2, 1>>, <<5, 2>>}

CallDetermineWarningLevel(distance, ttc, lateral_offset, object_class) ==
    /\ call' = [op |-> "_determine_warning_level", distance |-> distance,
                ttc |-> ttc, lateral_offset |-> lateral_offset,
                object_class |-> object_class]
    /\ result' = [raised |-> FALSE,
                  value |-> DetermineWarningLevel(distance, ttc,
                                lateral_offset, object_class)]
    /\ UNCHANGED <<cwVars, depth_scale, lkVars, svVars>>

NextTTC ==
    \/ \E v \in EgoInputs : UpdateEgoVelocity(v)
    \/ \E d \in TTCDistances, rv \in TTCVelocities : CallCalculateTTC(d, rv)
    \/ \E d \in LevelDistances, ttc \in TTCValues, l \in LateralOffsets,
          c \in {"car", "person"} : CallDetermineWarningLevel(d, ttc, l, c)

SpecTTC == InitTTC /\ [][NextTTC]_vars

-----------------------------------------------------------------------------
(* distance_estimator.py: DistanceEstimator.  A depth map is a sequence of  *)
(* rows of depths; pixel (x, y), 0-based, is map[y + 1][x + 1].             *)

Min(a, b) == IF a < b THEN a ELSE b
Max(a, b) == IF a > b THEN a ELSE b

MaxDistance == <<100, 1>>

DepthToDistance_Unclamped(depth) ==
    IF RLt(depth, <<1, 100>>) THEN MaxDistance
    ELSE RDiv(depth_scale, depth)

\* _depth_to_distance
DepthToDistance(depth) ==
    IF RLt(depth, <<1, 100>>) THEN MaxDistance
    ELSE RMin(RDiv(depth_scale, depth), MaxDistance)

RECURSIVE RSum(_)
RSum(values) ==
    IF Len(values) = 0 THEN <<0, 1>> ELSE RAdd(values[1], RSum(Tail(values)))

\* depth_map[ya:yb, xa:xb] flattened row by row (numpy clips the slice)
RECURSIVE Region(_, _, _, _, _)
Region(depth_map, xa, ya, xb, yb) ==
    LET h == Len(depth_map)
        w == Len(depth_map[1])
        y2 == Min(yb, h)
        x2 == Min(xb, w)
    IN  IF ya >= y2 \/ xa >= x2 THEN <<>>
        ELSE SubSeq(depth_map[ya + 1], xa + 1, x2)
               \o Region(depth_map, xa, ya + 1, xb, yb)

\* np.mean
Mean(values) == RDiv(RSum(values), <<Len(values), 1>>)

\* np.max
RECURSIVE RMaxOf(_)
RMaxOf(values) ==
    IF Len(values) = 1 THEN values[1]
    ELSE RMax(values[1], RMaxOf(Tail(values)))

\* sorted ascending
RECURSIVE RSort(_)
RSort(values) ==
    IF Len(values) <= 1 THEN values
    ELSE LET n == Len(values)
             sorted == RSort(SubSeq(values, 1, n - 1))
             v == values[n]
             k == Cardinality({i \in 1..(n - 1) : RLe(sorted[i], v)})
         IN  SubSeq(sorted, 1, k) \o <<v>> \o SubSeq(sorted, k + 1, n - 1)

\* np.median
Median(values) ==
    LET sorted == RSort(values)
        n == Len(values)
    IN  IF n % 2 = 1 THEN sorted[(n + 1) \div 2]
        ELSE RDiv(RAdd(sorted[n \div 2], sorted[(n \div 2) + 1]), <<2, 1>>)

\* estimate_at_point
EstimateAtPoint(depth_map, x, y, window_size) ==
    LET h == Len(depth_map)
        w == Len(depth_map[1])
        xc == Max(window_size, Min(w - window_size - 1, x))
        yc == Max(window_size, Min(h - window_size - 1, y))
        window == Region(depth_map, xc - window_size, yc - window_size,
                         xc + window_size + 1, yc + window_size + 1)
    IN  DepthToDistance(Mean(window))

BBoxMethods == {"center", "bottom_center", "min", "median"}

\* estimate_for_bbox: the distance, or raised for the ValueError of line 159
EstimateForBbox(depth_map, x1, y1, x2, y2, method) ==
    LET h == Len(depth_map)
        w == Len(depth_map[1])
        xa == Max(0, x1)
        xb == Min(w, x2)
        ya == Max(0, y1)
        yb == Min(h, y2)
        roi == Region(depth_map, xa, ya, xb, yb)
        ok(v) == [raised |-> FALSE, value |-> v]
    IN  IF xb <= xa \/ yb <= ya THEN ok(Inf)
        ELSE IF method = "center"
        THEN ok(EstimateAtPoint(depth_map, (xa + xb) \div 2, (ya + yb) \div 2, 5))
        ELSE IF method = "bottom_center"
        THEN ok(EstimateAtPoint(depth_map, (xa + xb) \div 2, yb - 5, 10))
        ELSE IF method = "min"
        THEN (IF Len(roi) = 0 THEN ok(Inf) ELSE ok(DepthToDistance(RMaxOf(roi))))
        ELSE IF method = "median"
        THEN (IF Len(roi) = 0 THEN ok(Inf) ELSE ok(DepthToDistance(Median(roi))))
        ELSE [raised |-> TRUE, value |-> <<0, 1>>]

\* create_distance_map: np.where(depth > 0.01, scale / depth, 100), clipped
CreateDistanceMap(depth_map) ==
    [y \in 1..Len(depth_map) |->
        [x \in 1..Len(depth_map[y]) |->
            LET d == depth_map[y][x]
                v == IF RLt(<<1, 100>>, d) THEN RDiv(depth_scale, d)
                     ELSE MaxDistance
            IN  RMax(<<0, 1>>, RMin(v, MaxDistance))]]

-----------------------------------------------------------------------------
(* State machine of one DistanceEstimator: SpecDE *)

\* depth_scale of the CameraCalibration handed to the constructor
CalibrationScales == {<<-10, 1>>, <<0, 1>>, <<1, 10>>, <<10, 1>>}

DepthValues == {<<-1, 10>>, <<0, 1>>, <<1, 200>>, <<1, 100>>, <<1, 10>>,
                <<1, 2>>, <<1, 1>>}

KnownDistances == {<<-4, 1>>, <<0, 1>>, <<5, 1>>, <<20, 1>>, <<150, 1>>}

DepthMaps ==
    { << <<<<1, 2>>, <<1, 2>>>>, <<<<1, 2>>, <<1, 2>>>> >>,
      << <<<<1, 1>>, <<1, 200>>>>, <<<<1, 10>>, <<1, 2>>>> >>,
      << <<<<0, 1>>, <<0, 1>>, <<1, 10>>>> >>,
      << <<<<1, 100>>, <<1, 4>>>> >> }

Boxes == {<<0, 0, 2, 2>>, <<0, 0, 1, 1>>, <<1, 0, 1, 2>>, <<1, 1, 0, 0>>,
          <<-1, -1, 3, 3>>, <<3, 3, 5, 5>>}

MethodInputs == BBoxMethods \cup {"bogus"}

\* DistanceEstimator(calibration): __init__ stores the calibration as given
InitDE ==
    /\ InitCW
    /\ InitIdleLK
    /\ InitIdleSvc
    /\ ego_velocity = 15
    /\ enable_audio = TRUE
    /\ frame_width = 640
    /\ \E s \in CalibrationScales :
         /\ depth_scale = s
         /\ call = [op |-> "__init__", depth_scale |-> s]
    /\ result = [raised |-> FALSE, value |-> <<0, 1>>]

CallDepthToDistance(depth) ==
    /\ call' = [op |-> "_depth_to_distance", depth |-> depth]
    /\ result' = [raised |-> FALSE, value |-> DepthToDistance(depth)]
    /\ UNCHANGED <<cwVars, depth_scale, lkVars, svVars>>

CallEstimateForBbox(depth_map, box, method) ==
    /\ call' = [op |-> "estimate_for_bbox", depth_map |-> depth_map,
                box |-> box, method |-> method]
    /\ result' = EstimateForBbox(depth_map, box[1], box[2], box[3], box[4],
                                 method)
    /\ UNCHANGED <<cwVars, depth_scale, lkVars, svVars>>

CalibrateFromKnownDistance_Unguarded(depth_value, actual_distance) ==
    /\ depth_scale' = RMul(actual_distance, depth_value)
    /\ call' = [op |-> "calibrate_from_known_distance",
                depth_value |-> depth_value,
                actual_distance |-> actual_distance]
    /\ result' = [raised |-> FALSE, value |-> <<0, 1>>]
    /\ UNCHANGED <<cwVars, lkVars, svVars>>

\* calibrate_from_known_distance
CalibrateFromKnownDistance(depth_value, actual_distance) ==
    /\ depth_scale' = IF RLt(<<1, 100>>, depth_value)
                      THEN RMul(actual_distance, depth_value)
                      ELSE depth_scale
    /\ call' = [op |-> "calibrate_from_known_distance",
                depth_value |-> depth_value,
                actual_distance |-> actual_distance]
    /\ result' = [raised |-> FALSE, value |-> <<0, 1>>]
    /\ UNCHANGED <<cwVars, lkVars, svVars>>

CallCreateDistanceMap(depth_map) ==
    /\ call' = [op |-> "create_distance_map", depth_map |-> depth_map]
    /\ result' = [raised |-> FALSE, value |-> CreateDistanceMap(depth_map)]
    /\ UNCHANGED <<cwVars, depth_scale, lkVars, svVars>>

NextDE ==
    \/ \E m \in DepthMaps : CallCreateDistanceMap(m)
    \/ \E d \in DepthValues : CallDepthToDistance(d)
    \/ \E m \in DepthMaps, b \in Boxes, me \in MethodInputs :
           CallEstimateForBbox(m, b, me)
    \/ \E dv \in DepthValues, ad \in KnownDistances :
           CalibrateFromKnownDistance(dv, ad)

SpecDE == InitDE /\ [][NextDE]_vars

-----------------------------------------------------------------------------
(* State machine of one LaneKeeping instance: SpecLK *)

Line(x) == <<<<0, 1>>, <<0, 1>>, <<x, 1>>>>

\* x = y^2 / 1198 - 200: slope 1 and x = 99.5 at the bottom row
LeftCurve == <<<<1, 1198>>, <<0, 1>>, <<-200, 1>>>>

LeftPixels ==
    { [n |-> 0, poly |-> None],
      [n |-> 50, poly |-> Line(100)],
      [n |-> 150, poly |-> Line(100)],
      [n |-> 150, poly |-> LeftCurve],
      [n |-> 150, poly |-> Line(-2400)] }

RightPixels ==
    { [n |-> 0, poly |-> None],
      [n |-> 5, poly |-> Line(300)],
      [n |-> 150, poly |-> Line(300)],
      [n |-> 150, poly |-> Line(200)],
      [n |-> 150, poly |-> Line(420)] }

Frames == [left : LeftPixels, right : RightPixels]

HistorySizes == {1, 2}

\* LaneKeeping(history_size=..., enable_smoothing=...)
InitLK ==
    /\ InitCW
    /\ ego_velocity = 15
    /\ enable_audio = TRUE
    /\ frame_width = 640
    /\ InitIdleDE
    /\ InitIdleSvc
    /\ history_size \in HistorySizes
    /\ enable_smoothing \in BOOLEAN
    /\ left_history = <<>>
    /\ right_history = <<>>
    /\ frame = NoFrame
    /\ lane_state = [raised |-> FALSE, state |-> NewLaneState]
    /\ left_fits = <<>>
    /\ right_fits = <<>>
    /\ frames = 0

\* what the call leaves behind: r is what DetectCall computed
DetectEnds(r) ==
    /\ left_history' = r.left_history
    /\ right_history' = r.right_history
    /\ lane_state' = [raised |-> r.raised, state |-> r.state]

LogFit(fits, fit) == IF fit # None THEN Append(fits, fit) ELSE fits

Detect(fr) ==
    /\ frames < MaxFrames
    /\ DetectEnds(DetectCall(enable_smoothing, history_size, left_history,
                             right_history, fr))
    /\ frame' = fr
    /\ left_fits' = LogFit(left_fits, FrameFit(fr.left))
    /\ right_fits' = LogFit(right_fits, FrameFit(fr.right))
    /\ frames' = frames + 1
    /\ UNCHANGED <<history_size, enable_smoothing, cwVars, deVars, svVars>>

NextLK == \E fr \in Frames : Detect(fr)

SpecLK == InitLK /\ [][NextLK]_vars

-----------------------------------------------------------------------------
(* depth_adas_service.py: DepthADASService.  A frame is what the models see *)
(* in it: the boxes YOLO reports, each with the mean depth the depth model  *)
(* gives around its bottom centre, and the lane pixels of the two sides.    *)

\* the depth_pipe property; loads: _load_depth_model succeeds
DepthPipe(loads) ==
    IF depth_pipe = "None" /\ enable_depth_model /\ loads THEN "loaded"
    ELSE depth_pipe

\* the yolo_model property; loads: _load_yolo_model succeeds
YoloModel(loads) ==
    IF yolo_model = "None" /\ loads THEN "loaded" ELSE yolo_model

\* lines 189-224: the detections handed to analyze; without a depth model
\* the depth map is all zeros
DetectedObjects(boxes, pipe, yolo) ==
    IF yolo = "None" THEN <<>>
    ELSE [i \in 1..Len(boxes) |->
            [object_id |-> BBoxCode(boxes[i].bbox) % 10000,
             object_class |-> boxes[i].object_class,
             distance |-> DepthToDistance(IF pipe = "loaded"
                                          THEN boxes[i].depth ELSE <<0, 1>>),
             bbox |-> boxes[i].bbox,
             confidence |-> boxes[i].confidence]]

FrameTimes_NeverPops(times, processing_time) == Append(times, processing_time)

\* lines 240-242: the buffer after the append and the pop(0)
FrameTimes(times, processing_time) ==
    IF Len(times) + 1 > 30 THEN Tail(Append(times, processing_time))
    ELSE Append(times, processing_time)

\* lines 243-271: the ADASState built from what the engines returned and
\* from the buffer times
BuildADASState(warning_state, lane, times, frame_id, processing_time) ==
    LET avg_time == Mean([i \in 1..Len(times) |-> <<times[i], 1>>])
        fps == IF RLt(<<0, 1>>, avg_time) THEN RDiv(<<1000, 1>>, avg_time)
               ELSE <<0, 1>>
    IN
    [frame_id |-> frame_id,
     warning_level |-> warning_state.highest_level,
     brake_assist |-> warning_state.brake_assist_triggered,
     lane_status |-> lane.departure_status,
     lane_confidence |-> lane.confidence,
     fps |-> Round1(fps),
     processing_time_ms |-> processing_time]

\* lines 232-271: lane is what detect computed
AfterDetect(w, lane, frame_id, processing_time) ==
    IF lane.raised
    THEN [raised |-> TRUE, warning |-> w, detected |-> TRUE, lane |-> lane,
          last_frame_times |-> last_frame_times, adas_state |-> adas_state]
    ELSE [raised |-> FALSE, warning |-> w, detected |-> TRUE, lane |-> lane,
          last_frame_times |-> FrameTimes(last_frame_times, processing_time),
          adas_state |->
              BuildADASState(w.state, lane.state,
                  FrameTimes(last_frame_times, processing_time),
                  frame_id, processing_time)]

\* lines 227-271: w is what analyze computed; when it raised, detect is not
\* reached and the buffer is not touched
AfterAnalyze(w, fr, frame_id, processing_time) ==
    IF w.outcome = "raised"
    THEN [raised |-> TRUE, warning |-> w, detected |-> FALSE,
          lane |-> [left_history |-> left_history,
                    right_history |-> right_history,
                    raised |-> FALSE, state |-> lane_state.state],
          last_frame_times |-> last_frame_times, adas_state |-> adas_state]
    ELSE AfterDetect(w,
             DetectCall(enable_smoothing, history_size, left_history,
                        right_history, fr.lanes),
             frame_id, processing_time)

\* process_frame(frame, frame_id=frame_id) with the handles pipe and yolo the
\* two properties return: whether it raised, what the engines computed, the
\* buffer it leaves and the ADASState it returns
ProcessFrameCall(fr, frame_id, processing_time, pipe, yolo) ==
    AfterAnalyze(
        AnalyzeCall(object_history, DetectedObjects(fr.boxes, pipe, yolo),
                    frame_width, 0, now),
        fr, frame_id, processing_time)

\* the i-th process_frame call takes i ms: no two samples of the buffer are
\* equal
ProcessingTime(i) == i

\* the streams that appended to each track, after stream s ran analyze
TrackWriters(writers, old, new, s) ==
    [id \in DOMAIN new |->
        (IF id \in DOMAIN writers THEN writers[id] ELSE {})
        \cup (IF id \notin DOMAIN old \/ new[id] # old[id] THEN {s} ELSE {})]

\* the stream of each entry of a lane history, after stream s ran detect
LaneWriters(writers, fit, s) ==
    IF fit # None THEN Retained(Append(writers, s), history_size).history
    ELSE writers

\* what a process_frame call of stream s leaves behind: r is what
\* ProcessFrameCall computed
ProcessFrameEnds(r, fr, s) ==
    /\ AnalyzeEnds(r.warning)
    /\ detected_objects' = DetectedObjects(fr.boxes, depth_pipe', yolo_model')
    /\ track_writers' = TrackWriters(track_writers, object_history,
                                     r.warning.object_history, s)
    /\ DetectEnds(r.lane)
    /\ IF r.detected
       THEN /\ frame' = fr.lanes
            /\ left_writers' = LaneWriters(left_writers, FrameFit(fr.lanes.left), s)
            /\ right_writers' = LaneWriters(right_writers, FrameFit(fr.lanes.right), s)
       ELSE UNCHANGED <<frame, left_writers, right_writers>>
    /\ last_frame_times' = r.last_frame_times
    /\ adas_state' = r.adas_state
    /\ processed' = processed + 1

\* a step of the service that processes no frame
NoFrameProcessed ==
    UNCHANGED <<object_history, outcome, state, evaluated, detected_objects,
                track_writers, left_history, right_history, lane_state, frame,
                left_writers, right_writers, last_frame_times, adas_state,
                processed>>

\* what no step of the service touches
ServiceFixed ==
    UNCHANGED <<enable_depth_model, service_ego_velocity, deVars,
                ego_velocity, enable_audio, now, frame_width, calls,
                timestamp, history_size, enable_smoothing, left_fits,
                right_fits, frames>>

-----------------------------------------------------------------------------
(* Inputs of the service *)

\* lane markings at x = 100 and x = 300 of the warped image, no traffic
Road ==
    [boxes |-> <<>>,
     lanes |-> [left |-> [n |-> 150, poly |-> Line(100)],
                right |-> [n |-> 150, poly |-> Line(300)]]]

\* nothing to see
Dark == [boxes |-> <<>>, lanes |-> NoFrame]

\* one car ahead, the right marking at x = 200
CarAhead ==
    [boxes |-> <<[object_class |-> "car", bbox |-> BBoxCentre,
                  confidence |-> <<9, 10>>, depth |-> <<1, 2>>]>>,
     lanes |-> [left |-> [n |-> 0, poly |-> None],
                right |-> [n |-> 150, poly |-> Line(200)]]]

\* two cars ahead
Traffic ==
    [boxes |-> <<[object_class |-> "car", bbox |-> BBoxCentre,
                  confidence |-> <<9, 10>>, depth |-> <<1, 2>>],
                 [object_class |-> "car", bbox |-> <<280, 180, 360, 350>>,
                  confidence |-> <<9, 10>>, depth |-> <<1, 1>>]>>,
     lanes |-> NoFrame]

\* the files handed to process_video
Videos == {"corrupt.mp4", "empty.mp4", "road.mp4", "traffic.mp4"}

\* cap.isOpened()
Openable(video) == video # "corrupt.mp4"

\* what cap.read() returns, frame after frame
VideoFrames(video) ==
    CASE video = "road.mp4" -> <<Road, Dark, Road>>
      [] video = "traffic.mp4" -> <<CarAhead, Traffic>>
      [] OTHER -> <<>>

SkipFrames == {1, 2}

-----------------------------------------------------------------------------
(* process_frame called directly on a service, as the module's own test     *)
(* does: SpecPF                                                             *)

\* the service fields a finished process_video run left behind, or none
EarlierRuns ==
    { [status |-> IDLE, current_video |-> "None", frames |-> 0],
      [status |-> COMPLETED, current_video |-> "road.mp4", frames |-> 3] }

InitPF ==
    /\ InitCW
    /\ ego_velocity = 15
    /\ enable_audio = TRUE
    /\ frame_width = 640
    /\ InitIdleDE
    /\ InitIdleLK
    /\ enable_depth_model = FALSE
    /\ depth_pipe = "None"
    /\ yolo_model = "None"
    /\ service_ego_velocity = 15
    /\ \E run \in EarlierRuns :
         /\ status = run.status
         /\ current_video = run.current_video
         /\ processed_frames = run.frames
         /\ total_frames = run.frames
    /\ last_frame_times = <<>>
    /\ adas_state = NoADASState
    /\ streams = [s \in Streams |-> NoRun]
    /\ processed = 0
    /\ track_writers = <<>>
    /\ left_writers = <<>>
    /\ right_writers = <<>>

\* process_frame(frame, frame_id=frame_id)
ProcessFrame(fr, frame_id, depth_loads, yolo_loads) ==
    /\ processed < MaxProcessed
    /\ depth_pipe' = DepthPipe(depth_loads)
    /\ yolo_model' = YoloModel(yolo_loads)
    /\ ProcessFrameEnds(
           ProcessFrameCall(fr, frame_id, ProcessingTime(processed + 1),
                            depth_pipe', yolo_model'),
           fr, 0)
    /\ UNCHANGED <<status, current_video, processed_frames, total_frames,
                   streams>>
    /\ ServiceFixed

NextPF ==
    \E fr \in {Road, Dark, Traffic}, yolo_loads \in BOOLEAN :
        ProcessFrame(fr, processed + 1, FALSE, yolo_loads)

SpecPF == InitPF /\ [][NextPF]_vars

-----------------------------------------------------------------------------
(* process_video runs started on one service, as start_adas_processing      *)
(* starts a task per request on the singleton: SpecSvc.  A run holds the    *)
(* event loop from one yield to the next, so a step of a stream is the code *)
(* between two yields.                                                      *)

InitSvc ==
    /\ InitCW
    /\ ego_velocity = 15
    /\ enable_audio = TRUE
    /\ frame_width = 640
    /\ InitIdleDE
    /\ InitIdleLK
    /\ enable_depth_model \in BOOLEAN
    /\ depth_pipe = "None"
    /\ yolo_model = "None"
    /\ service_ego_velocity = 15
    /\ status = IDLE
    /\ current_video = "None"
    /\ processed_frames = 0
    /\ total_frames = 0
    /\ last_frame_times = <<>>
    /\ adas_state = NoADASState
    /\ streams = [s \in Streams |-> NoRun]
    /\ processed = 0
    /\ track_writers = <<>>
    /\ left_writers = <<>>
    /\ right_writers = <<>>

\* lines 311-320: the number of the next frame the loop processes after
\* frame_count, 0 when cap.read() runs out first
NextProcessed(video, frame_count, skip_frames) ==
    LET later == {k \in (frame_count + 1)..Len(VideoFrames(video)) :
                     (k - 1) % skip_frames = 0}
    IN  IF later = {} THEN 0
        ELSE CHOOSE k \in later : \A j \in later : k <= j

\* lines 328-331 and 339-341: frame k went through process_frame, which
\* computed r; the run yields, or ends with the exception
FrameEnds(s, run, k, r, status_was, processed_was) ==
    /\ ProcessFrameEnds(r, VideoFrames(run.video)[k], s)
    /\ status' = IF r.raised THEN ERROR ELSE status_was
    /\ processed_frames' = IF r.raised THEN processed_was ELSE k
    /\ streams' = [streams EXCEPT ![s] =
                      [run EXCEPT !.pc = IF r.raised THEN "failed"
                                         ELSE "running",
                                  !.frame_count = k]]

\* lines 311-341 from the loop's head to the next yield or to the run's
\* end; k = 0: cap.read() ran out (lines 336-337)
RunToYield(s, run, k, status_was, processed_was) ==
    IF k = 0
    THEN /\ status' = COMPLETED
         /\ streams' = [streams EXCEPT ![s] = [run EXCEPT !.pc = "completed"]]
         /\ processed_frames' = processed_was
         /\ NoFrameProcessed
    ELSE FrameEnds(s, run, k,
             ProcessFrameCall(VideoFrames(run.video)[k], k,
                              ProcessingTime(processed + 1),
                              depth_pipe', yolo_model'),
             status_was, processed_was)

\* process_video(video, scale, skip_frames) up to its first yield
StartVideo(s, video, skip_frames, depth_loads, yolo_loads) ==
    /\ streams[s].pc = "idle"
    /\ current_video' = video
    /\ depth_pipe' = DepthPipe(depth_loads)
    /\ yolo_model' = YoloModel(yolo_loads)
    /\ IF Openable(video)
       THEN /\ total_frames' = Len(VideoFrames(video))
            /\ RunToYield(s,
                   [pc |-> "running", video |-> video,
                    skip_frames |-> skip_frames, frame_count |-> 0],
                   NextProcessed(video, 0, skip_frames), PROCESSING, 0)
       ELSE /\ status' = ERROR
            /\ streams' = [streams EXCEPT ![s] =
                              [pc |-> "failed", video |-> video,
                               skip_frames |-> skip_frames, frame_count |-> 0]]
            /\ NoFrameProcessed
            /\ UNCHANGED <<total_frames, processed_frames>>
    /\ ServiceFixed

\* the run of stream s goes on after its yield, up to the next one
ResumeVideo(s, depth_loads, yolo_loads) ==
    /\ streams[s].pc = "running"
    /\ depth_pipe' = IF NextProcessed(streams[s].video, streams[s].frame_count,
                                      streams[s].skip_frames) = 0
                     THEN depth_pipe ELSE DepthPipe(depth_loads)
    /\ yolo_model' = IF NextProcessed(streams[s].video, streams[s].frame_count,
                                      streams[s].skip_frames) = 0
                     THEN yolo_model ELSE YoloModel(yolo_loads)
    /\ RunToYield(s, streams[s],
           NextProcessed(streams[s].video, streams[s].frame_count,
                         streams[s].skip_frames),
           status, processed_frames)
    /\ UNCHANGED <<current_video, total_frames>>
    /\ ServiceFixed

\* the consumer of stream s stops iterating while the run waits at its yield
\* (its broadcast raised, or its task was cancelled): GeneratorExit or
\* CancelledError is raised at line 331 or 334, and `except Exception` of
\* line 339 does not catch either, so the run ends without assigning status
AbandonVideo(s) ==
    /\ streams[s].pc = "running"
    /\ streams' = [streams EXCEPT ![s].pc = "abandoned"]
    /\ UNCHANGED <<cwVars, deVars, lkVars, enable_depth_model, depth_pipe,
                   yolo_model, service_ego_velocity, status, current_video,
                   processed_frames, total_frames, last_frame_times,
                   adas_state, processed, track_writers, left_writers,
                   right_writers>>

\* the velocities the dashboard reports, m/s
ServiceVelocities == {-5, 10}

\* DepthADASService.update_ego_velocity(velocity), called between two steps
\* of the streams
ServiceUpdateEgoVelocity(velocity) ==
    /\ service_ego_velocity' = Max(0, velocity)
    /\ ego_velocity' = EgoVelocityOf(velocity)
    /\ call' = [op |-> "update_ego_velocity", velocity |-> velocity]
    /\ UNCHANGED <<enable_audio, object_history, now, calls, detected_objects,
                   frame_width, timestamp, state, evaluated, outcome,
                   depth_scale, result, lkVars, enable_depth_model,
                   depth_pipe, yolo_model, status, current_video,
                   processed_frames, total_frames, last_frame_times,
                   adas_state, streams, processed, track_writers,
                   left_writers, right_writers>>

NextSvc ==
    \/ \E s \in Streams, video \in Videos, skip_frames \in SkipFrames,
          depth_loads \in BOOLEAN, yolo_loads \in BOOLEAN :
           StartVideo(s, video, skip_frames, depth_loads, yolo_loads)
    \/ \E s \in Streams, depth_loads \in BOOLEAN, yolo_loads \in BOOLEAN :
           ResumeVideo(s, depth_loads, yolo_loads)

SpecSvc == InitSvc /\ [][NextSvc]_vars

-----------------------------------------------------------------------------
(* One consumer at a time: a process_video run starts only when no other    *)
(* run is under way, the dashboard reports velocities between the steps of  *)
(* the run, and the consumer may stop iterating: SpecRun                    *)

\* no run but s is under way
NoOtherRun(s) == \A o \in Streams \ {s} : streams[o].pc # "running"

NextRun ==
    \/ \E s \in Streams, video \in Videos, skip_frames \in SkipFrames,
          depth_loads \in BOOLEAN, yolo_loads \in BOOLEAN :
           NoOtherRun(s)
               /\ StartVideo(s, video, skip_frames, depth_loads, yolo_loads)
    \/ \E s \in Streams, depth_loads \in BOOLEAN, yolo_loads \in BOOLEAN :
           ResumeVideo(s, depth_loads, yolo_loads)
    \/ \E velocity \in ServiceVelocities : ServiceUpdateEgoVelocity(velocity)
    \/ \E s \in Streams : AbandonVideo(s)

SpecRun == InitSvc /\ [][NextRun]_vars

-----------------------------------------------------------------------------
(* Claims about CollisionWarning.analyze, checked under Spec *)

Levels(threats) == [i \in 1..Len(threats) |-> threats[i].warning_level]

\* the threats _evaluate_threat built in the last call, NONE ones included
EvaluatedThreats ==
    {evaluated[i].ret[1] : i \in {j \in 1..Len(evaluated) :
                                     Len(evaluated[j].ret) = 1}}

\* C1: for any list of detections (missing fields included) and any positive
\* frame width, analyze returns a WarningState; no exception reaches the
\* caller.
C1_AnalyzeNeverRaises == outcome # "raised"

\* C2: whenever analyze returns with at least one active threat,
\* highest_level is the maximum severity over the active threats, audio_alert
\* is true exactly when audio is enabled and highest_level >= WARNING, and
\* brake_assist_triggered exactly when highest_level is CRITICAL; with no
\* threats highest_level is NONE and both flags are false.
C2_Aggregate ==
    outcome = "returned" =>
        LET threats == state.active_threats
        IN  IF Len(threats) > 0
            THEN /\ \E i \in 1..Len(threats) :
                        threats[i].warning_level = state.highest_level
                 /\ \A i \in 1..Len(threats) :
                        threats[i].warning_level <= state.highest_level
                 /\ state.audio_alert <=>
                        (enable_audio /\ state.highest_level \in {WARNING, DANGER, CRITICAL})
                 /\ state.brake_assist_triggered <=>
                        (state.highest_level = CRITICAL)
            ELSE /\ state.highest_level = NONE
                 /\ ~state.audio_alert
                 /\ ~state.brake_assist_triggered

C2_Witness ==
    /\ outcome = "returned"
    /\ Len(state.active_threats) > 0
    /\ state.highest_level = WARNING
    /\ state.audio_alert
    /\ ~state.brake_assist_triggered

\* the detections of the last call that _evaluate_threat made threats of
C3_FoundThreats ==
    {i \in 1..Len(evaluated) :
        /\ evaluated[i].called
        /\ Len(evaluated[i].ret) = 1
        /\ evaluated[i].ret[1].warning_level # NONE}

\* active_threats sorted ascending by (ttc, distance), primary_threat first,
\* the first element's severity equal to highest_level
C3_ReturnedStateSorted ==
    LET threats == state.active_threats
    IN  /\ \A i, j \in 1..Len(threats) :
               i < j => ~KeyLt(threats[j], threats[i])
        /\ IF Len(threats) = 0
           THEN state.primary_threat = <<>>
           ELSE /\ state.primary_threat = <<threats[1]>>
                /\ threats[1].warning_level = state.highest_level
        /\ \A t \in EvaluatedThreats :
               t.warning_level # NONE =>
                   \E i \in 1..Len(threats) : threats[i] = t

\* C3: severities are totally ordered, so the severities of the threats of
\* one frame can be compared and analyze returns; and in every WarningState
\* analyze returns, active_threats is sorted ascending by (ttc, distance),
\* primary_threat is its first element, and the first element's severity
\* equals highest_level when the list is non-empty.
C3_TotalOrderSortedPrimaryFirst ==
    /\ Cardinality(C3_FoundThreats) >= 2 => outcome = "returned"
    /\ outcome = "returned" => C3_ReturnedStateSorted

\* C4: a detection whose absolute lateral offset exceeds 2.0 m gets severity
\* INFO when its distance is below 15 m and NONE otherwise, whatever its TTC,
\* class or track history.
C4_OffPathAtMostInfo ==
    \A t \in EvaluatedThreats :
        (t.lateral_offset[1] * 1 > 2 * t.lateral_offset[2]
            \/ t.lateral_offset[1] * 1 < -2 * t.lateral_offset[2])
        => t.warning_level =
              (IF t.distance[1] < 15 * t.distance[2] THEN INFO ELSE NONE)

\* an off-path object half a second from impact is held at INFO
C4_Witness ==
    \E t \in EvaluatedThreats :
        /\ RLt(<<2, 1>>, RAbs(t.lateral_offset))
        /\ RLt(t.ttc, <<1, 1>>)
        /\ t.warning_level = INFO

\* what the claim calls a discarded detection
C5_Discarded(obj) ==
    \/ "confidence" \in DOMAIN obj /\ 2 * obj.confidence[1] < obj.confidence[2]
    \/ "distance" \notin DOMAIN obj
    \/ "distance" \in DOMAIN obj
         /\ (obj.distance[1] <= 0 \/ obj.distance[1] > 30 * obj.distance[2])

\* C5: a detection with confidence below min_confidence (0.5), with distance
\* <= 0 or > 30 m, or with no distance never appears in active_threats and has
\* no influence on the frame: the call returns (or raises), reports and leaves
\* the tracks exactly as the call without those detections would.
C5_DiscardedNoInfluence ==
    [][calls' = calls + 1 =>
         LET kept == SelectSeq(detected_objects', LAMBDA o : ~C5_Discarded(o))
             r == AnalyzeCall(object_history, kept, frame_width, timestamp', now)
         IN  /\ outcome' = r.outcome
             /\ state' = r.state
             /\ object_history' = r.object_history
             /\ \A i \in 1..Len(state'.active_threats) :
                    LET t == state'.active_threats[i]
                    IN  /\ 2 * t.confidence[1] >= t.confidence[2]
                        /\ t.distance[1] > 0
                        /\ t.distance[1] <= 30 * t.distance[2]]_vars

\* a low-confidence sighting of a tracked car next to an accepted one
C5_Witness ==
    /\ outcome = "returned"
    /\ calls = 2
    /\ \E i \in 1..Len(detected_objects) :
           /\ C5_Discarded(detected_objects[i])
           /\ Get(detected_objects[i], "object_id", 0) = 1
           /\ "distance" \in DOMAIN detected_objects[i]
    /\ Len(state.active_threats) = 1
    /\ state.active_threats[1].object_id = 1
    /\ Len(object_history[1]) = 2

\* the scenario of C6: ego 15 m/s, an on-path car at 8 m whose track shows the
\* distance shrinking by 5 m/s
C6_Scenario(t) ==
    /\ ego_velocity = 15
    /\ t.object_class = "car"
    /\ t.distance = <<8, 1>>
    /\ ~RLt(<<2, 1>>, RAbs(t.lateral_offset))
    /\ t.relative_velocity = <<-5, 1>>

\* C6 as stated: the scenario gives closing velocity 10 m/s, TTC 0.8 s,
\* severity CRITICAL and brake assist.
C6_Original ==
    \A t \in EvaluatedThreats :
        C6_Scenario(t) =>
            /\ RSub(<<ego_velocity, 1>>, t.relative_velocity) = <<10, 1>>
            /\ t.ttc = <<4, 5>>
            /\ t.warning_level = CRITICAL
            /\ (outcome = "returned" => state.brake_assist_triggered)

\* C6 amended: the scenario gives closing velocity 20 m/s, TTC 0.4 s,
\* severity CRITICAL and brake assist.
C6_Amended ==
    \A t \in EvaluatedThreats :
        C6_Scenario(t) =>
            /\ RSub(<<ego_velocity, 1>>, t.relative_velocity) = <<20, 1>>
            /\ t.ttc = <<2, 5>>
            /\ t.warning_level = CRITICAL
            /\ (outcome = "returned" => state.brake_assist_triggered)

C6_Witness ==
    /\ outcome = "returned"
    /\ Len(state.active_threats) = 1
    /\ C6_Scenario(state.active_threats[1])
    /\ state.brake_assist_triggered

\* the evaluations of the last call after which the call did not touch the
\* track of the same id again: the track they saw is the one the call left
C23_LastOfTrack ==
    {i \in 1..Len(evaluated) :
        /\ Len(evaluated[i].ret) = 1
        /\ \A j \in (i + 1)..Len(evaluated) :
               Len(evaluated[j].ret) = 1 =>
                   evaluated[j].ret[1].object_id # evaluated[i].ret[1].object_id}

\* (d_last - d_first) / (t_last - t_first) of a track, with the two guards;
\* a tick is half a second, so t_last - t_first < 0.01 s means no tick apart
C23_Secant(track) ==
    IF Len(track) < 2 THEN <<0, 1>>
    ELSE IF track[Len(track)].t - track[1].t <= 0 THEN <<0, 1>>
    ELSE RMul(RSub(track[Len(track)].d, track[1].d),
              <<2, track[Len(track)].t - track[1].t>>)

\* C23: the relative velocity of a track is the secant slope (d_last -
\* d_first) / (t_last - t_first) between its first and its last retained
\* sample, and 0 when the track holds fewer than 2 samples or when t_last -
\* t_first < 0.01 s; the samples in between do not enter it.
C23_SecantVelocity ==
    \A i \in C23_LastOfTrack :
        REq(evaluated[i].ret[1].relative_velocity,
            C23_Secant(object_history[evaluated[i].ret[1].object_id]))

\* a track of three samples whose middle one differs from the first: 10.5 m
\* and 8 m in one frame, 8 m half a second later, velocity -5 m/s
C23_Witness ==
    \E i \in C23_LastOfTrack :
        LET track == object_history[evaluated[i].ret[1].object_id]
        IN  /\ Len(track) = 3
            /\ track[2].d # track[1].d
            /\ track[3].t > track[1].t
            /\ evaluated[i].ret[1].relative_velocity = <<-5, 1>>

\* C25: track memory is bounded by the sliding window: after any sequence
\* of analyze calls the engine holds no track all of whose samples are older
\* than the window (1.0 s, two ticks) of the latest frame.
C25_NoStaleTrack ==
    calls > 0 =>
        \A id \in DOMAIN object_history :
            \E k \in 1..Len(object_history[id]) :
                state.timestamp - 2 < object_history[id][k].t

\* the id under which analyze tracks a detection
C27_Id(obj) == Get(obj, "object_id", HashStr(obj))

\* the ids of the detections of a list that analyze does not discard
C27_KeptIds(objs) ==
    {C27_Id(objs[i]) : i \in {j \in 1..Len(objs) : ~C5_Discarded(objs[j])}}

C27_DiscardedIds(objs) ==
    {C27_Id(objs[i]) : i \in {j \in 1..Len(objs) : C5_Discarded(objs[j])}}

\* the track held for an id, <<>> when there is none
C27_TrackOf(hist, id) == IF id \in DOMAIN hist THEN <<hist[id]>> ELSE <<>>

\* C27: a detection that analyze discards (confidence below min_confidence,
\* distance <= 0 or > 30 m) leaves the track history unchanged: no track is
\* created for its id, and no sample is appended to or pruned from any track
\* other than those of the detections the call accepts.
C27_DiscardedLeavesTracks ==
    [][calls' = calls + 1 =>
         \A id \in (DOMAIN object_history \cup DOMAIN object_history'
                      \cup C27_DiscardedIds(detected_objects'))
                   \ C27_KeptIds(detected_objects') :
             C27_TrackOf(object_history', id)
                 = C27_TrackOf(object_history, id)]_vars

\* a tracked car is sighted again, with low confidence, when its only sample
\* has left the window: the stale sample stays and nothing is appended
C27_Witness ==
    /\ calls = 2
    /\ outcome = "returned"
    /\ 1 \in C27_DiscardedIds(detected_objects)
    /\ 1 \notin C27_KeptIds(detected_objects)
    /\ 1 \in DOMAIN object_history
    /\ Len(object_history[1]) = 1
    /\ object_history[1][1].t <= state.timestamp - 2

-----------------------------------------------------------------------------
(* Claims about the track history under caller-given timestamps, checked    *)
(* under SpecStamped                                                        *)

\* C24: after every analyze call at timestamp T, each track touched in that
\* call is time-ordered (timestamps non-decreasing from first to last), its
\* last sample is the one just appended, and all its samples lie within the
\* sliding window, T - 1.0 < t <= T (a tick is 0.5 s).
C24_TimeOrderedWindow ==
    \A i \in C23_LastOfTrack :
        LET track == object_history[evaluated[i].ret[1].object_id]
            T == state.timestamp
        IN  /\ \A k \in 1..(Len(track) - 1) : track[k].t <= track[k + 1].t
            /\ track[Len(track)].t = T
            /\ track[Len(track)].d = evaluated[i].ret[1].distance
            /\ \A k \in 1..Len(track) : T - 2 < track[k].t /\ track[k].t <= T

-----------------------------------------------------------------------------
(* Claims about _calculate_ttc, checked under SpecTTC *)

\* ego_velocity - relative_velocity of a recorded call, as numerator over the
\* (positive) denominator of relative_velocity
C7_ClosingNum(c) ==
    c.ego_velocity * c.relative_velocity[2] - c.relative_velocity[1]

\* C7: closing velocity = ego_velocity - relative_velocity; TTC = distance /
\* closing velocity when that is > 0 and +infinity when it is <= 0; for a
\* fixed distance TTC is non-increasing in closing velocity, and it is never
\* negative.
C7_TTCLaw ==
    [][call'.op = "_calculate_ttc" =>
         LET c == call'
             cn == C7_ClosingNum(c)
             cd == c.relative_velocity[2]
             ttc == result'.value
         IN  /\ ~result'.raised
             /\ cn <= 0 => ttc = Inf
             /\ cn > 0 =>
                  /\ ttc[2] > 0 /\ ttc[1] >= 0
                  /\ ttc[1] * (c.distance[2] * cn)
                       = ttc[2] * (c.distance[1] * cd)
             /\ (/\ call.op = "_calculate_ttc"
                 /\ call.distance = c.distance
                 /\ C7_ClosingNum(call) * cd <= cn * call.relative_velocity[2])
                => RLe(ttc, result.value)]_vars

\* 8 m at a closing velocity of 10 m/s: 0.8 s
C7_Witness ==
    /\ call.op = "_calculate_ttc"
    /\ call.distance = <<8, 1>>
    /\ call.ego_velocity = 15
    /\ call.relative_velocity = <<5, 1>>
    /\ result.value = <<4, 5>>

\* severity by the TTC thresholds; 0 (NONE) when the TTC reaches none
C22_ByTTC(ttc) ==
    IF ttc # Inf /\ ttc[1] < 1 * ttc[2] THEN CRITICAL
    ELSE IF ttc # Inf /\ ttc[1] < 2 * ttc[2] THEN DANGER
    ELSE IF ttc # Inf /\ 2 * ttc[1] < 7 * ttc[2] THEN WARNING
    ELSE IF ttc # Inf /\ ttc[1] < 5 * ttc[2] THEN INFO
    ELSE NONE

\* severity by the pure-distance thresholds
C22_ByDistance(distance) ==
    IF distance[1] < 3 * distance[2] THEN DANGER
    ELSE IF distance[1] < 8 * distance[2] THEN WARNING
    ELSE IF distance[1] < 15 * distance[2] THEN INFO
    ELSE NONE

\* the last call was made for an on-path detection
C22_OnPath ==
    /\ call.op = "_determine_warning_level"
    /\ RLe(RAbs(call.lateral_offset), <<2, 1>>)

\* C22 as stated: for an on-path detection severity follows the TTC
\* thresholds (CRITICAL < 1.0 s, DANGER < 2.0 s, WARNING < 3.5 s, INFO
\* < 5.0 s); the distance thresholds (DANGER < 3 m, WARNING < 8 m, INFO
\* < 15 m, else NONE) are applied if the TTC is infinite, and only then.
C22_Original ==
    C22_OnPath =>
        result.value = (IF call.ttc = Inf THEN C22_ByDistance(call.distance)
                        ELSE C22_ByTTC(call.ttc))

\* C22 amended: for an on-path detection severity follows the TTC thresholds
\* (CRITICAL < 1.0 s, DANGER < 2.0 s, WARNING < 3.5 s, INFO < 5.0 s); the
\* distance thresholds (DANGER < 3 m, WARNING < 8 m, INFO < 15 m, else NONE)
\* are applied whenever the TTC is not below 5.0 s, infinite or not.
C22_Amended ==
    C22_OnPath =>
        result.value = (IF call.ttc = Inf \/ call.ttc[1] >= 5 * call.ttc[2]
                        THEN C22_ByDistance(call.distance)
                        ELSE C22_ByTTC(call.ttc))

\* an object 2 m ahead that closes in slowly (TTC 6 s) is rated DANGER by
\* its distance
C22_Witness ==
    /\ C22_OnPath
    /\ call.ttc = <<6, 1>>
    /\ call.distance = <<2, 1>>
    /\ result.value = DANGER

-----------------------------------------------------------------------------
(* Claims about DistanceEstimator, checked under SpecDE *)

\* clamp(q, 0, max_distance)
C8_Clamp(q) ==
    IF RLt(q, <<0, 1>>) THEN <<0, 1>>
    ELSE IF RLt(<<100, 1>>, q) THEN <<100, 1>> ELSE q

\* depth_scale / d for a non-zero depth d, by cross-multiplication
C8_Quotient(d) == R(depth_scale[1] * d[2], depth_scale[2] * d[1])

\* C8 as stated: for every positive depth_scale and every depth d in (0, 1]
\* the conversion returns clamp(depth_scale / d, 0, 100), and for every
\* d < 0.01 it returns 100.
C8_Original ==
    (call.op = "_depth_to_distance" /\ depth_scale[1] > 0) =>
        LET d == call.depth
        IN  /\ (d[1] > 0 /\ d[1] <= d[2]) =>
                   result.value = C8_Clamp(C8_Quotient(d))
            /\ 100 * d[1] < d[2] => result.value = <<100, 1>>

\* C8 amended: for every positive depth_scale and every depth d in [0.01, 1]
\* the conversion returns clamp(depth_scale / d, 0, 100), and for every
\* d < 0.01 it returns 100.
C8_Amended ==
    (call.op = "_depth_to_distance" /\ depth_scale[1] > 0) =>
        LET d == call.depth
        IN  /\ (100 * d[1] >= d[2] /\ d[1] <= d[2]) =>
                   result.value = C8_Clamp(C8_Quotient(d))
            /\ 100 * d[1] < d[2] => result.value = <<100, 1>>

\* depth 0.01 at the default scale saturates at 100 m
C8_Witness ==
    /\ call.op = "_depth_to_distance"
    /\ depth_scale = <<10, 1>>
    /\ call.depth = <<1, 100>>
    /\ result.value = <<100, 1>>

\* C9: depth_scale > 0 in every reachable state of a DistanceEstimator: a
\* calibration with zero or negative depth_scale fails at construction, no
\* calibrate_from_known_distance call leaves depth_scale zero or negative,
\* and no conversion returns a negative distance.
C9_DepthScalePositive ==
    /\ (call.op = "__init__" /\ call.depth_scale[1] <= 0) => result.raised
    /\ ~result.raised => depth_scale[1] > 0
    /\ call.op = "_depth_to_distance" => result.value[1] >= 0

\* C10: estimate_for_bbox with a method other than center, bottom_center, min
\* or median fails with an error for every bounding box, degenerate or empty
\* ones included.
C10_UnknownMethodRaises ==
    (/\ call.op = "estimate_for_bbox"
     /\ call.method \notin {"center", "bottom_center", "min", "median"})
    => result.raised

\* what _depth_to_distance returns for the depth of the last calibration
C21_Converted == DepthToDistance(call.depth_value)

\* C21: calibrate_from_known_distance(depthValue, actualDistance) sets
\* depth_scale to actualDistance * depthValue when depthValue > 0.01, after
\* which converting depthValue returns min(actualDistance, 100); when
\* depthValue <= 0.01 the call leaves depth_scale unchanged.
C21_Calibrate ==
    [][call'.op = "calibrate_from_known_distance" =>
          IF RLt(<<1, 100>>, call'.depth_value)
          THEN /\ REq(depth_scale',
                      RMul(call'.actual_distance, call'.depth_value))
               /\ REq(C21_Converted', RMin(call'.actual_distance, <<100, 1>>))
          ELSE depth_scale' = depth_scale]_vars

\* a calibration against a target 150 m away: the conversion saturates
C21_Witness ==
    /\ call.op = "calibrate_from_known_distance"
    /\ call.depth_value = <<1, 2>>
    /\ call.actual_distance = <<150, 1>>
    /\ depth_scale = <<75, 1>>
    /\ C21_Converted = <<100, 1>>

\* the pixels of the depth map handed to the last create_distance_map call
C20_Pixels ==
    {p \in (1..Len(call.depth_map)) \X (1..Len(call.depth_map[1])) : TRUE}

\* C20: for every positive depth_scale, every entry of create_distance_map is
\* the value _depth_to_distance returns for that pixel and lies in [0, 100];
\* a constant map of value depth_scale / d0, d0 in (0, 100], gives d0 at
\* every pixel.
C20_PointwiseImage ==
    (call.op = "create_distance_map" /\ depth_scale[1] > 0) =>
        /\ \A p \in C20_Pixels :
               LET d == call.depth_map[p[1]][p[2]]
                   e == result.value[p[1]][p[2]]
               IN  /\ e = DepthToDistance(d)
                   /\ RLe(<<0, 1>>, e) /\ RLe(e, MaxDistance)
        /\ \A p \in C20_Pixels :
               LET v == call.depth_map[p[1]][p[2]]
               IN  ( /\ \A q \in C20_Pixels : call.depth_map[q[1]][q[2]] = v
                     /\ v[1] > 0
                     /\ RLe(RDiv(depth_scale, v), MaxDistance) )
                   => result.value[p[1]][p[2]] = RDiv(depth_scale, v)

-----------------------------------------------------------------------------
(* Claims on LaneKeeping, checked under SpecLK *)

\* the LaneState the last detect call returned
Lane == lane_state.state

\* C11: a frame with no usable lane pixels on either side yields NO_LANE with
\* confidence 0, whatever the earlier frames contained.
C11_EmptyFrameNoLane ==
    (frames > 0 /\ frame = NoFrame) =>
        /\ ~lane_state.raised
        /\ Lane.departure_status = NO_LANE
        /\ Lane.confidence = <<0, 1>>

\* C12: with smoothing enabled, detect never raises, and a side with fewer
\* than 10 matched pixels in the frame has polynomial None in the LaneState.
C12_FewPixelsNone ==
    (frames > 0 /\ enable_smoothing) =>
        /\ ~lane_state.raised
        /\ frame.left.n < 10 => Lane.left_poly = None
        /\ frame.right.n < 10 => Lane.right_poly = None

\* the last n elements of a sequence
C13_LastN(seq, n) ==
    IF Len(seq) <= n THEN seq ELSE SubSeq(seq, Len(seq) - n + 1, Len(seq))

\* the unweighted mean coefficient vector of a non-empty history
C13_MeanOf(history) ==
    [i \in 1..3 |->
        RDiv(RSum([k \in 1..Len(history) |-> history[k][i]]),
             <<Len(history), 1>>)]

C13_Side(history, fits, poly) ==
    /\ Len(history) <= history_size
    /\ history = C13_LastN(fits, history_size)
    /\ poly = None <=> Len(history) = 0
    /\ Len(history) > 0 => poly = C13_MeanOf(history)

C14_SidesInFrame ==
    (IF FrameFit(frame.left) # None THEN 1 ELSE 0)
    + (IF FrameFit(frame.right) # None THEN 1 ELSE 0)

\* C14: confidence is 0.5 per side detected in the current frame, and is what
\* the same frame gives with temporal smoothing disabled.
C14_ConfidenceUnaffected ==
    frames > 0 =>
        /\ Lane.confidence = R(C14_SidesInFrame, 2)
        /\ Lane.confidence =
             DetectCall(FALSE, history_size, <<>>, <<>>, frame).state.confidence

\* departure status as a function of center_offset alone
C15_StatusOf(o) ==
    IF o[1] * 10 > 7 * o[2] THEN DEPARTED_RIGHT
    ELSE IF o[1] * 10 < -7 * o[2] THEN DEPARTED_LEFT
    ELSE IF o[1] * 10 > 3 * o[2] THEN DRIFTING_RIGHT
    ELSE IF o[1] * 10 < -3 * o[2] THEN DRIFTING_LEFT
    ELSE CENTERED

\* both sides reported, at x = 100 and x = 300 on the bottom row
C15_Scenario ==
    /\ Lane.left_poly # None
    /\ Lane.right_poly # None
    /\ PolyVal(Lane.left_poly, 599) = <<100, 1>>
    /\ PolyVal(Lane.right_poly, 599) = <<300, 1>>

\* C15: NO_LANE exactly when neither side has a polynomial; otherwise the
\* status is a function of center_offset alone (departed beyond 0.7 m,
\* drifting beyond 0.3 m, else centered, named by the sign); left_x = 100 and
\* right_x = 300 give offset 0 and CENTERED.
C15_DepartureStatus ==
    (frames > 0 /\ ~lane_state.raised) =>
        /\ Lane.departure_status = NO_LANE
             <=> (Lane.left_poly = None /\ Lane.right_poly = None)
        /\ (Lane.left_poly # None \/ Lane.right_poly # None)
             => Lane.departure_status = C15_StatusOf(Lane.center_offset)
        /\ C15_Scenario =>
             (Lane.center_offset = <<0, 1>> /\ Lane.departure_status = CENTERED)

C15_Witness ==
    /\ frames > 1
    /\ C15_Scenario
    /\ Lane.departure_status = CENTERED
    /\ enable_smoothing

\* a value clamped into [-45, 45]
C16_Clamp(q) ==
    IF q[1] > 45 * q[2] THEN <<45, 1>>
    ELSE IF q[1] < -45 * q[2] THEN <<-45, 1>>
    ELSE q

\* 2.0 * center_offset + 0.5 * heading_angle
C16_Raw ==
    RAdd(RMul(<<2, 1>>, Lane.center_offset), RDiv(Lane.heading_angle, <<2, 1>>))

\* C16: with a side detected, suggested_steering is 2.0 * center_offset +
\* 0.5 * heading_angle clamped into [-45, 45]; for a NO_LANE state it is 0.
C16_SteeringLaw ==
    (frames > 0 /\ ~lane_state.raised) =>
        IF Lane.left_poly = None /\ Lane.right_poly = None
        THEN Lane.suggested_steering = <<0, 1>>
        ELSE Lane.suggested_steering = C16_Clamp(C16_Raw)

C16_Witness ==
    /\ frames > 0
    /\ Lane.left_poly # None
    /\ RLt(<<45, 1>>, C16_Raw)
    /\ Lane.suggested_steering = <<45, 1>>

\* C17: the curvature radius reported for a centre polynomial never exceeds
\* 10,000 m, and a straight centre polynomial yields the 10,000 m sentinel.
C17_CurvatureCapped ==
    (frames > 0 /\ Lane.center_poly # None) =>
        /\ RLe(Lane.curvature_radius, <<10000, 1>>)
        /\ Lane.center_poly[1] = <<0, 1>>
             => Lane.curvature_radius = <<10000, 1>>

\* the polynomial detect holds for one side of the current frame: with
\* smoothing disabled the reported polynomial, with smoothing enabled the
\* newest entry of the side's history when the frame added one
C26_PerFrame(pixels, reported, history) ==
    IF ~enable_smoothing THEN reported
    ELSE IF FrameFit(pixels) # None /\ Len(history) > 0
         THEN history[Len(history)]
         ELSE None

\* C26: a side with at least 10 matched pixels in the frame gets a per-frame
\* polynomial (the least-squares fit of its pixels), and the per-frame
\* polynomial is None only for a side with fewer than 10 matched pixels.
C26_FittedFromTenPixels ==
    (frames > 0 /\ ~lane_state.raised) =>
        /\ frame.left.n >= 10 =>
             C26_PerFrame(frame.left, Lane.left_poly, left_history)
                 = frame.left.poly
        /\ frame.right.n >= 10 =>
             C26_PerFrame(frame.right, Lane.right_poly, right_history)
                 = frame.right.poly


\* C30: the steering suggestion keeps the vehicle centred: with positive
\* steering meaning a right turn and positive center_offset meaning the
\* vehicle is right of the lane centre, whenever the heading angle is 0 the
\* suggested steering is not positive for center_offset > 0 and not negative
\* for center_offset < 0.
C30_SteersToCentre ==
    (frames > 0 /\ ~lane_state.raised /\ Lane.confidence # <<0, 1>>
       /\ Lane.heading_angle = <<0, 1>>) =>
        /\ RLt(<<0, 1>>, Lane.center_offset)
             => RLe(Lane.suggested_steering, <<0, 1>>)
        /\ RLt(Lane.center_offset, <<0, 1>>)
             => RLe(<<0, 1>>, Lane.suggested_steering)

-----------------------------------------------------------------------------
(* Claims on DepthADASService.process_frame, checked under SpecPF *)

\* the buffer after p calls that returned: the processing times of the last
\* 30 of them (of all p when p <= 30), oldest first
C19_LastThirty(times, p) ==
    /\ Len(times) = Min(p, 30)
    /\ \A i \in 1..Len(times) :
           times[i] = ProcessingTime(p - Len(times) + i)

C19_BufferHolds == C19_LastThirty(last_frame_times, processed)

C19_ListedFieldsKept ==
    /\ status' = status
    /\ current_video' = current_video
    /\ processed_frames' = processed_frames
    /\ total_frames' = total_frames
    /\ service_ego_velocity' = service_ego_velocity
    /\ enable_depth_model' = enable_depth_model

\* C19 as stated: a process_frame call changes no field of the service but
\* the processing-time buffer, which then holds the last 30 processing times
\* (all of them while there are at most 30) in arrival order.
C19_Original ==
    [][processed' = processed + 1 =>
          /\ C19_ListedFieldsKept
          /\ depth_pipe' = depth_pipe
          /\ yolo_model' = yolo_model
          /\ C19_BufferHolds']_vars

\* C19 amended: a process_frame call may set the lazily loaded model handle;
\* apart from that it changes no field of the service but the
\* processing-time buffer, which then holds the last 30 processing times in
\* arrival order; status, current_video, processed_frames, total_frames and
\* ego_velocity are as they were before the call.
C19_Amended ==
    [][processed' = processed + 1 =>
          /\ C19_ListedFieldsKept
          /\ C19_BufferHolds']_vars

\* more than 30 frames went through a service that had finished a video
C19_Witness ==
    /\ processed = 32
    /\ status = COMPLETED
    /\ total_frames = 3
    /\ yolo_model = "loaded"
    /\ Len(last_frame_times) = 30
    /\ last_frame_times[1] = ProcessingTime(3)
    /\ last_frame_times[30] = ProcessingTime(32)


-----------------------------------------------------------------------------
(* Claims on the process_video runs of one service, checked under SpecSvc *)

\* the streams whose fits a lane history holds
C18_Writers(writers) == {writers[i] : i \in DOMAIN writers}

\* the runs that are under way, each waiting at its yield
C18_Running == {s \in Streams : streams[s].pc = "running"}

\* C18: each engine's history has a single writer: no two runs that are
\* under way at the same time have both written the track history of the
\* CollisionWarning instance or the polynomial history of the LaneKeeping
\* instance they run on, so no history mixes the samples of two streams.
C18_SingleWriter ==
    /\ Cardinality(C18_Writers(left_writers) \cap C18_Running) <= 1
    /\ Cardinality(C18_Writers(right_writers) \cap C18_Running) <= 1
    /\ \A id \in DOMAIN track_writers :
           Cardinality(track_writers[id] \cap C18_Running) <= 1

-----------------------------------------------------------------------------
(* Claims on the velocity and the status of a service used by one consumer  *)
(* at a time, checked under SpecRun                                         *)

\* the service and its CollisionWarning engine hold the same velocity, the
\* clamped argument of the latest update_ego_velocity call
C28_VelocitiesAgree ==
    /\ service_ego_velocity = ego_velocity
    /\ service_ego_velocity >= 0
    /\ ego_velocity >= 0
    /\ call.op = "update_ego_velocity" =>
           service_ego_velocity
               = (IF call.velocity > 0 THEN call.velocity ELSE 0)

\* a step that is an update_ego_velocity call: no run moves
C28_UpdateStep ==
    /\ call'.op = "update_ego_velocity"
    /\ streams' = streams
    /\ processed' = processed

\* C28: after any sequence of update_ego_velocity(v) calls on the service,
\* interleaved with frame processing, the service's ego_velocity and its
\* CollisionWarning engine's ego_velocity are equal, both equal max(0, v) of
\* the latest call, and neither is negative; the call changes no track
\* history.
C28_EgoVelocityInSync ==
    /\ []C28_VelocitiesAgree
    /\ [][C28_UpdateStep => object_history' = object_history]_vars

\* the runs that have ended, in whatever way
C29_Ended == {s \in Streams : streams[s].pc \notin {"idle", "running"}}

\* C29: a process_video run sets the status to COMPLETED when the video is
\* read to its end and to ERROR when the video cannot be opened or a frame
\* fails; once every started run has ended in any way (exhausted, failed,
\* abandoned or cancelled by its consumer) the status is COMPLETED or ERROR,
\* never PROCESSING or LOADING_MODEL.
C29_StatusSettles ==
    /\ [][\A s \in Streams :
             streams'[s].pc # streams[s].pc =>
                 /\ streams'[s].pc = "completed" => status' = COMPLETED
                 /\ streams'[s].pc = "failed" => status' = ERROR]_vars
    /\ [](C29_Ended # {} /\ C18_Running = {}
            => status \in {COMPLETED, ERROR})

\* a negative velocity was reported while a run is under way and the engine
\* holds tracks: both velocities are 0
C28_Witness ==
    /\ call.op = "update_ego_velocity"
    /\ call.velocity < 0
    /\ service_ego_velocity = 0
    /\ ego_velocity = 0
    /\ DOMAIN object_history # {}
    /\ \E s \in Streams : streams[s].pc = "running"

=============================================================================
